---------------------------- MODULE Spec2Model ----------------------------
(***************************************************************************)
(* CairoSVG, cairosvg/surface.py: the value resolvers (size, color, point, *)
(* normalize), the path interpreter (Surface.path), the transform parser   *)
(* and the recursive renderer (Surface.draw), as one state machine.        *)
(*                                                                         *)
(* Python strings are sequences of one-character strings.  Numbers are     *)
(* exact rationals [k |-> "num", n, d]; None and the exceptions a          *)
(* conversion can raise are values of the same record shape, told apart by *)
(* the field k.  Python 3 semantics are assumed (true division, dict       *)
(* iteration in insertion order).                                          *)
(***************************************************************************)
EXTENDS Integers, Sequences, FiniteSets, TLC

(***************************************************************************)
(* Python str operations                                                   *)
(***************************************************************************)

\* str.startswith at offset i
StartsAt(s, pat, i) ==
    /\ i + Len(pat) - 1 <= Len(s)
    /\ \A k \in 1..Len(pat) : s[i + k - 1] = pat[k]

RECURSIVE FindFrom(_, _, _)
\* str.find(pat, i): the first index >= i where pat occurs, 0 when none
FindFrom(s, pat, i) ==
    IF i + Len(pat) - 1 > Len(s) THEN 0
    ELSE IF StartsAt(s, pat, i) THEN i
    ELSE FindFrom(s, pat, i + 1)

\* pat in s
Contains(s, pat) == FindFrom(s, pat, 1) # 0

RECURSIVE replace(_, _, _)
\* s.replace(old, new), old not empty
replace(s, old, new) ==
    LET i == FindFrom(s, old, 1) IN
    IF i = 0 THEN s
    ELSE SubSeq(s, 1, i - 1) \o new
         \o replace(SubSeq(s, i + Len(old), Len(s)), old, new)

\* s.replace(old, new, 1)
replaceFirst(s, old, new) ==
    LET i == FindFrom(s, old, 1) IN
    IF i = 0 THEN s
    ELSE SubSeq(s, 1, i - 1) \o new \o SubSeq(s, i + Len(old), Len(s))

RECURSIVE lstrip(_, _)
\* s.lstrip(chars)
lstrip(s, chars) ==
    IF s # <<>> /\ s[1] \in chars THEN lstrip(Tail(s), chars) ELSE s

RECURSIVE rstrip(_, _)
rstrip(s, chars) ==
    IF s # <<>> /\ s[Len(s)] \in chars
    THEN rstrip(SubSeq(s, 1, Len(s) - 1), chars) ELSE s

\* s.strip(chars)
strip(s, chars) == rstrip(lstrip(s, chars), chars)

\* the characters s.strip() removes
Whitespace == {" ", "\t", "\n", "\r"}

RECURSIVE split(_, _, _)
\* s.split(sep, maxsplit), sep not empty: at most maxsplit+1 parts
split(s, sep, maxsplit) ==
    LET i == FindFrom(s, sep, 1) IN
    IF maxsplit = 0 \/ i = 0 THEN <<s>>
    ELSE <<SubSeq(s, 1, i - 1)>>
         \o split(SubSeq(s, i + Len(sep), Len(s)), sep, maxsplit - 1)

\* the set of characters of a string
Chars(s) == {s[i] : i \in 1..Len(s)}

Digits == {"0", "1", "2", "3", "4", "5", "6", "7", "8", "9"}

\* s.isdigit()
isdigit(s) == s # <<>> /\ Chars(s) \subseteq Digits

DigitVal(c) ==
    CASE c = "0" -> 0 [] c = "1" -> 1 [] c = "2" -> 2 [] c = "3" -> 3
      [] c = "4" -> 4 [] c = "5" -> 5 [] c = "6" -> 6 [] c = "7" -> 7
      [] c = "8" -> 8 [] c = "9" -> 9

HexVal(c) ==
    CASE c \in Digits -> DigitVal(c)
      [] c = "a" -> 10 [] c = "b" -> 11 [] c = "c" -> 12
      [] c = "d" -> 13 [] c = "e" -> 14 [] c = "f" -> 15

(***************************************************************************)
(* Values: exact rationals, None, and raised exceptions                    *)
(***************************************************************************)

RECURSIVE GCD(_, _)
GCD(a, b) == IF b = 0 THEN a ELSE GCD(b, a % b)

Abs(a) == IF a < 0 THEN -a ELSE a

\* the rational n/d (d > 0) in lowest terms
Rat(n, d) ==
    LET g == GCD(Abs(n), d) IN [k |-> "num", n |-> n \div g, d |-> d \div g]

Num(n) == [k |-> "num", n |-> n, d |-> 1]

\* Python's None
None == [k |-> "None", n |-> 0, d |-> 1]

\* an exception raised while computing a value
Raise(name) == [k |-> name, n |-> 0, d |-> 1]

IsNum(v) == v.k = "num"

IsExc(v) == v.k \notin {"num", "None"}

\* a * b on floats; None operands raise TypeError, exceptions propagate
Mul(a, b) ==
    IF IsExc(a) THEN a ELSE IF IsExc(b) THEN b
    ELSE IF ~IsNum(a) \/ ~IsNum(b) THEN Raise("TypeError")
    ELSE Rat(a.n * b.n, a.d * b.d)

\* a + b
Add(a, b) ==
    IF IsExc(a) THEN a ELSE IF IsExc(b) THEN b
    ELSE IF ~IsNum(a) \/ ~IsNum(b) THEN Raise("TypeError")
    ELSE Rat(a.n * b.d + b.n * a.d, a.d * b.d)

\* a - b
Sub(a, b) ==
    IF IsExc(a) THEN a ELSE IF IsExc(b) THEN b
    ELSE IF ~IsNum(a) \/ ~IsNum(b) THEN Raise("TypeError")
    ELSE Rat(a.n * b.d - b.n * a.d, a.d * b.d)

RECURSIVE DigitsValue(_)
\* int(s) of a string of decimal digits ("" gives 0)
DigitsValue(s) ==
    IF s = <<>> THEN 0
    ELSE DigitsValue(SubSeq(s, 1, Len(s) - 1)) * 10 + DigitVal(s[Len(s)])

RECURSIVE Pow10(_)
Pow10(e) == IF e = 0 THEN 1 ELSE 10 * Pow10(e - 1)

\* the value of the digits ip before and fp after the decimal point
Decimal(sign, ip, fp) ==
    IF isdigit(ip \o fp)
    THEN Rat(sign * DigitsValue(ip \o fp), Pow10(Len(fp)))
    ELSE Raise("ValueError")

\* an unsigned literal split at its first point
Unsigned(sign, parts) ==
    Decimal(sign, parts[1], IF Len(parts) = 2 THEN parts[2] ELSE <<>>)

\* a literal without surrounding whitespace
Signed(t) ==
    IF t # <<>> /\ t[1] = "-" THEN Unsigned(-1, split(Tail(t), <<".">>, 1))
    ELSE IF t # <<>> /\ t[1] = "+" THEN Unsigned(1, split(Tail(t), <<".">>, 1))
    ELSE Unsigned(1, split(t, <<".">>, 1))

\* float(s) for decimal literals: optional sign, digits, at most one point,
\* at least one digit, surrounding whitespace ignored; anything else is a
\* ValueError (exponents, inf and nan are outside the modelled alphabet)
float(s) == Signed(strip(s, Whitespace))

(***************************************************************************)
(* Module-level constants and functions of surface.py                      *)
(***************************************************************************)

\* an attribute that is not set: node.get(name) is None
Absent == <<"<None>">>

DPI == 72

\* NotImplemented, the factor of the units that cannot be resolved
NotImplemented == [k |-> "NotImplemented", n |-> 0, d |-> 1]

\* UNITS.items(), in insertion order
UNITS ==
    << <<<<"m", "m">>, Rat(DPI * 10, 254)>>,
       <<<<"c", "m">>, Rat(DPI * 100, 254)>>,
       <<<<"i", "n">>, Num(DPI)>>,
       <<<<"p", "t">>, Rat(DPI, 72)>>,
       <<<<"p", "c">>, Rat(DPI, 6)>>,
       <<<<"p", "x">>, Num(1)>>,
       <<<<"e", "m">>, NotImplemented>>,
       <<<<"e", "x">>, NotImplemented>>,
       <<<<"%">>, NotImplemented>> >>

ASCII_LETTERS ==
    << "a", "b", "c", "d", "e", "f", "g", "h", "i", "j", "k", "l", "m",
       "n", "o", "p", "q", "r", "s", "t", "u", "v", "w", "x", "y", "z",
       "A", "B", "C", "D", "E", "F", "G", "H", "I", "J", "K", "L", "M",
       "N", "O", "P", "Q", "R", "S", "T", "U", "V", "W", "X", "Y", "Z" >>

\* normalize(string)
RECURSIVE CollapseSpaces(_)
CollapseSpaces(s) ==
    IF Contains(s, <<" ", " ">>)
    THEN CollapseSpaces(replace(s, <<" ", " ">>, <<" ">>))
    ELSE s

normalize(string) ==
    CollapseSpaces(replace(replace(string, <<"-">>, <<" ", "-">>),
                           <<",">>, <<" ">>))

\* the first unit of UNITS, from index i on, that occurs in string; 0 if none
RECURSIVE FirstUnit(_, _)
FirstUnit(string, i) ==
    IF i > Len(UNITS) THEN 0
    ELSE IF Contains(string, UNITS[i][1]) THEN i
    ELSE FirstUnit(string, i + 1)

\* a faulty variant of Scaled: the factor of the unit is left out
ScaledWithoutFactor(f, value) ==
    IF IsExc(f) THEN f
    ELSE IF value = NotImplemented THEN Raise("TypeError")
    ELSE f

\* float(...) * value, line 71
Scaled(f, value) ==
    IF IsExc(f) THEN f
    ELSE IF value = NotImplemented THEN Raise("TypeError")
    ELSE Mul(f, value)

\* lines 69-71 for the unit UNITS[u] found in string; no unit found: the
\* function ends without a return statement
SizeUnit(string, u) ==
    IF u = 0 THEN None
    ELSE Scaled(float(strip(string, {" "} \cup Chars(UNITS[u][1]))),
                UNITS[u][2])

\* size(string)
size(string) ==
    IF string = Absent \/ string = <<>> THEN Num(0)
    ELSE IF isdigit(lstrip(replaceFirst(string, <<".">>, <<>>), {" ", "-"}))
    THEN float(string)
    ELSE SizeUnit(string, FirstUnit(string, 1))

\* string.lower() of one character
Lower(c) ==
    IF \E i \in 27..52 : ASCII_LETTERS[i] = c
    THEN ASCII_LETTERS[(CHOOSE i \in 27..52 : ASCII_LETTERS[i] = c) - 26]
    ELSE c

lower(s) == [i \in 1..Len(s) |-> Lower(s[i])]

\* string[a:b] with 0-based Python indices
Slice(s, a, b) ==
    SubSeq(s, a + 1, IF b < Len(s) THEN b ELSE Len(s))

\* int(s, 16)
int16(s) ==
    IF s = <<>> \/ ~(Chars(s) \subseteq Digits \cup {"a", "b", "c", "d", "e", "f"}) THEN Raise("ValueError")
    ELSE IF Len(s) = 1 THEN Num(HexVal(s[1]))
    ELSE Num(16 * HexVal(s[1]) + HexVal(s[2]))

\* "#" + "".join(2 * char for char in string[1:])
RECURSIVE DoubleChars(_)
DoubleChars(s) ==
    IF s = <<>> THEN <<>> ELSE <<s[1], s[1]>> \o DoubleChars(Tail(s))

\* the first exception among values, "" if none
FirstExc(values) ==
    IF SelectSeq(values, IsExc) = <<>> THEN ""
    ELSE SelectSeq(values, IsExc)[1].k

\* line 90, with the exception computing a component raised
Rgba(r, g, b, a) ==
    [exc |-> FirstExc(<<a, r, g, b>>), r |-> r, g |-> g, b |-> b, a |-> a]

\* int(value, 16) / 255.
Channel(value) == Mul(int16(value), Rat(1, 255))

\* lines 86-90
ColorHex(string, opacity) ==
    Rgba(Channel(Slice(string, 1, 3)), Channel(Slice(string, 3, 5)),
         Channel(Slice(string, 5, 7)),
         IF Len(string) = 9 THEN Mul(opacity, Channel(Slice(string, 7, 9)))
         ELSE opacity)

\* lines 84-85
Expand(string) ==
    IF Len(string) \in {4, 5} THEN <<"#">> \o DoubleChars(Tail(string))
    ELSE string

\* color(string, opacity): [exc, r, g, b, a].  Colour names (the COLORS
\* table of cairosvg/colors.py) are not part of the modelled inputs: a hex
\* literal is never a key of that table.
color(string, opacity) ==
    IF string = Absent \/ string = <<>> \/ string = <<"n", "o", "n", "e">>
    THEN Rgba(Num(0), Num(0), Num(0), Num(0))
    ELSE ColorHex(Expand(lower(strip(string, Whitespace))), opacity)

\* line 99
PointOf(x, y, rest) ==
    [exc |-> FirstExc(<<x, y>>), x |-> x, y |-> y, rest |-> rest]

\* lines 98-99: the unpacking needs three parts
Unpack3(string, parts) ==
    IF Len(parts) < 3
    THEN [exc |-> "ValueError", x |-> None, y |-> None, rest |-> string]
    ELSE PointOf(size(parts[1]), size(parts[2]), parts[3])

\* point(string): [exc, x, y, rest]
point(string) ==
    IF string = <<>> THEN PointOf(Num(0), Num(0), <<>>)
    ELSE Unpack3(string, split(string, <<" ">>, 2))

(***************************************************************************)
(* The drawing backend behind self.context (cairo.Context), as far as the  *)
(* renderer observes it: the transformation matrix, the graphics-state     *)
(* stack, the paint settings, the current path and current point, and the  *)
(* sequence of calls the renderer issued.                                  *)
(***************************************************************************)

\* cairo.Matrix: x' = xx*x + xy*y + x0, y' = yx*x + yy*y + y0
Identity ==
    [xx |-> Num(1), yx |-> Num(0), xy |-> Num(0), yy |-> Num(1),
     x0 |-> Num(0), y0 |-> Num(0)]

\* cairo.Matrix(*values): missing trailing components keep their defaults
Matrix(values) ==
    LET dflt == <<Num(1), Num(0), Num(0), Num(1), Num(0), Num(0)>>
        v(i) == IF i <= Len(values) THEN values[i] ELSE dflt[i]
    IN  [xx |-> v(1), yx |-> v(2), xy |-> v(3), yy |-> v(4),
         x0 |-> v(5), y0 |-> v(6)]

\* the matrix that applies t first, then m
Compose(m, t) ==
    [xx |-> Add(Mul(m.xx, t.xx), Mul(m.xy, t.yx)),
     yx |-> Add(Mul(m.yx, t.xx), Mul(m.yy, t.yx)),
     xy |-> Add(Mul(m.xx, t.xy), Mul(m.xy, t.yy)),
     yy |-> Add(Mul(m.yx, t.xy), Mul(m.yy, t.yy)),
     x0 |-> Add(Add(Mul(m.xx, t.x0), Mul(m.xy, t.y0)), m.x0),
     y0 |-> Add(Add(Mul(m.yx, t.x0), Mul(m.yy, t.y0)), m.y0)]

Det(m) == Sub(Mul(m.xx, m.yy), Mul(m.xy, m.yx))

\* a / b, b # 0
Div(a, b) ==
    IF b.n < 0 THEN Rat(-(a.n * b.d), a.d * (-b.n))
    ELSE Rat(a.n * b.d, a.d * b.n)

\* user space to device space
ToDevice(m, x, y) ==
    [x |-> Add(Add(Mul(m.xx, x), Mul(m.xy, y)), m.x0),
     y |-> Add(Add(Mul(m.yx, x), Mul(m.yy, y)), m.y0)]

\* a user-space distance in device space
DistToDevice(m, dx, dy) ==
    [x |-> Add(Mul(m.xx, dx), Mul(m.xy, dy)),
     y |-> Add(Mul(m.yx, dx), Mul(m.yy, dy))]

\* the point (px, py) relative to the origin of m, through the inverse of
\* the linear part of m, whose determinant is det
Inverse(m, px, py, det) ==
    [x |-> Div(Sub(Mul(m.yy, px), Mul(m.xy, py)), det),
     y |-> Div(Sub(Mul(m.xx, py), Mul(m.yx, px)), det)]

\* device space to user space, for an invertible m
ToUser(m, p) == Inverse(m, Sub(p.x, m.x0), Sub(p.y, m.y0), Det(m))

\* no current point
NoPoint == [x |-> None, y |-> None]

\* the context a surface is created with
NewContext ==
    [calls      |-> <<>>,          \* the calls issued, in order
     exc        |-> "",            \* the exception a call raised, "" if none
     matrix     |-> Identity,
     saved      |-> <<>>,          \* the graphics states pushed by save()
     source     |-> <<Num(0), Num(0), Num(0), Num(1)>>,
     line_width |-> Num(2),
     fill_rule  |-> "WINDING",
     font_size  |-> Num(10),
     point      |-> NoPoint,       \* current point, device space
     start      |-> NoPoint,       \* start of the current subpath
     path       |-> {}]            \* the nodes whose geometry is in the path

\* the number of calls the log keeps; later calls are issued but not logged
MaxCalls == 64

\* the number of arguments of each method.  The enumeration passed to
\* set_fill_rule (always FILL_RULE_EVEN_ODD) and the strings passed to
\* select_font_face are left out; show_text and text_path are given the
\* number of characters of their text.
Arity(op) ==
    CASE op \in {"save", "restore", "close_path", "stroke_preserve", "fill",
                 "select_font_face", "set_fill_rule"} -> 0
      [] op \in {"set_line_width", "set_font_size", "show_text",
                 "text_path"} -> 1
      [] op \in {"move_to", "rel_move_to", "line_to", "rel_line_to",
                 "scale", "translate"} -> 2
      [] op = "set_source_rgba" -> 4
      [] op = "arc" -> 5
      [] op \in {"curve_to", "rel_curve_to", "set_matrix", "transform"} -> 6

\* the exception op(*args) raises, "" if none.  pycairo rejects a call whose
\* arguments are not numbers, or too many or too few, with TypeError; cairo
\* reports a relative move without current point, a restore without save
\* and a singular matrix as cairo.Error.
CallError(ctx, op, args) ==
    IF op = "set_matrix" /\ Len(args) > 6 THEN "TypeError"
    ELSE IF op # "set_matrix" /\ Len(args) # Arity(op) THEN "TypeError"
    ELSE IF \E i \in 1..Len(args) : ~IsNum(args[i]) THEN "TypeError"
    ELSE IF op \in {"rel_move_to", "rel_line_to", "rel_curve_to"}
            /\ ctx.point = NoPoint THEN "cairo.Error"
    ELSE IF op = "restore" /\ ctx.saved = <<>> THEN "cairo.Error"
    ELSE IF op = "scale" /\ (args[1].n = 0 \/ args[2].n = 0) THEN "cairo.Error"
    ELSE IF op \in {"set_matrix", "transform"} /\ Det(Matrix(args)).n = 0
    THEN "cairo.Error"
    ELSE ""

\* the current point in user space; (0, 0) when there is none
get_current_point(ctx) ==
    IF ctx.point = NoPoint THEN [x |-> Num(0), y |-> Num(0)]
    ELSE ToUser(ctx.matrix, ctx.point)

\* the advance of a text of n characters: the font's metrics are the
\* backend's; here every glyph is as wide as the font size
TextAdvance(ctx, n) == Mul(n, ctx.font_size)

\* the device-space point a relative distance away from the current point
Offset(ctx, dv) ==
    [x |-> Add(ctx.point.x, dv.x), y |-> Add(ctx.point.y, dv.y)]

\* the point a path operation ends at: its last two arguments, absolute or
\* relative to the current point; an arc of a full turn from angle 0 ends
\* at (xc + r, yc); a text advances the current point
Target(ctx, op, args) ==
    CASE op \in {"move_to", "line_to", "curve_to"} ->
           ToDevice(ctx.matrix, args[Len(args) - 1], args[Len(args)])
      [] op \in {"rel_move_to", "rel_line_to", "rel_curve_to"} ->
           Offset(ctx, DistToDevice(ctx.matrix, args[Len(args) - 1],
                                    args[Len(args)]))
      [] op = "arc" -> ToDevice(ctx.matrix, Add(args[1], args[3]), args[2])
      [] op = "show_text" ->
           IF ctx.point = NoPoint THEN NoPoint
           ELSE Offset(ctx, DistToDevice(ctx.matrix,
                                         TextAdvance(ctx, args[1]), Num(0)))
      [] op = "text_path" ->
           ToDevice(ctx.matrix,
                    Add(get_current_point(ctx).x, TextAdvance(ctx, args[1])),
                    get_current_point(ctx).y)
      [] OTHER -> ctx.point

\* the state of the context after an accepted call op(*args) made for
\* node, the operation ending at the point to
Effect(ctx, op, args, node, to) ==
    CASE op = "save" ->
           [ctx EXCEPT !.saved = Append(@,
               [matrix |-> ctx.matrix, source |-> ctx.source,
                line_width |-> ctx.line_width, fill_rule |-> ctx.fill_rule])]
      [] op = "restore" ->
           [ctx EXCEPT !.saved = SubSeq(@, 1, Len(@) - 1),
                       !.matrix = ctx.saved[Len(ctx.saved)].matrix,
                       !.source = ctx.saved[Len(ctx.saved)].source,
                       !.line_width = ctx.saved[Len(ctx.saved)].line_width,
                       !.fill_rule = ctx.saved[Len(ctx.saved)].fill_rule]
      [] op \in {"move_to", "rel_move_to"} ->
           [ctx EXCEPT !.point = to, !.start = to]
      [] op = "line_to" ->
           \* without current point a line_to is a move_to
           [ctx EXCEPT !.point = to,
                       !.start = IF ctx.point = NoPoint THEN to ELSE @,
                       !.path = IF ctx.point = NoPoint THEN @
                                ELSE @ \cup {node}]
      [] op \in {"rel_line_to", "rel_curve_to"} ->
           [ctx EXCEPT !.point = to, !.path = @ \cup {node}]
      [] op = "curve_to" ->
           \* without current point the curve starts at its first control
           \* point
           [ctx EXCEPT !.point = to,
                       !.start = IF ctx.point = NoPoint
                                 THEN ToDevice(ctx.matrix, args[1], args[2])
                                 ELSE @,
                       !.path = @ \cup {node}]
      [] op = "close_path" ->
           [ctx EXCEPT !.point = ctx.start,
                       !.path = IF ctx.point = NoPoint THEN @
                                ELSE @ \cup {node}]
      [] op = "arc" ->
           [ctx EXCEPT !.point = to,
                       !.start = IF ctx.point = NoPoint THEN to ELSE @,
                       !.path = @ \cup {node}]
      [] op = "set_matrix" -> [ctx EXCEPT !.matrix = Matrix(args)]
      [] op = "transform" ->
           [ctx EXCEPT !.matrix = Compose(ctx.matrix, Matrix(args))]
      [] op = "scale" ->
           [ctx EXCEPT !.matrix = Compose(ctx.matrix,
               Matrix(<<args[1], Num(0), Num(0), args[2]>>))]
      [] op = "translate" ->
           [ctx EXCEPT !.matrix = Compose(ctx.matrix,
               Matrix(<<Num(1), Num(0), Num(0), Num(1), args[1], args[2]>>))]
      [] op = "set_line_width" -> [ctx EXCEPT !.line_width = args[1]]
      [] op = "set_font_size" -> [ctx EXCEPT !.font_size = args[1]]
      [] op = "set_fill_rule" -> [ctx EXCEPT !.fill_rule = "EVEN_ODD"]
      [] op = "set_source_rgba" -> [ctx EXCEPT !.source = args]
      [] op = "show_text" -> [ctx EXCEPT !.point = to]
      [] op = "text_path" ->
           [ctx EXCEPT !.point = to,
                       !.path = IF args[1].n = 0 THEN @ ELSE @ \cup {node}]
      [] op = "fill" ->
           [ctx EXCEPT !.path = {}, !.point = NoPoint, !.start = NoPoint]
      [] OTHER -> ctx

\* the call op(*args), accepted or rejected with err, entered in the log.
\* The entry keeps the matrix in effect after the call.
Logged(next, err, op, args, node, role) ==
    [next EXCEPT !.exc = err,
                 !.calls = IF Len(@) < MaxCalls
                           THEN Append(@, [op |-> op, args |-> args,
                                           node |-> node, role |-> role,
                                           ok |-> err = "",
                                           matrix |-> next.matrix])
                           ELSE @]

Issue(ctx, err, op, args, node, role) ==
    Logged(IF err = "" THEN Effect(ctx, op, args, node, Target(ctx, op, args))
           ELSE ctx,
           err, op, args, node, role)

\* self.context.op(*args), issued while drawing node for the purpose role.
\* Nothing runs once an exception is in flight.
Call(ctx, op, args, node, role) ==
    IF ctx.exc # "" THEN ctx
    ELSE Issue(ctx, CallError(ctx, op, args), op, args, node, role)

(***************************************************************************)
(* Nodes (cairosvg/parser.py): a tag, a mapping of attributes, children,   *)
(* text and the root flag.  The tree is a sequence of nodes; children are  *)
(* indices into it.                                                        *)
(***************************************************************************)

\* node.get(name)
Get(node, name) ==
    IF name \in DOMAIN node.attrs THEN node.attrs[name] ELSE Absent

\* node[name] = value
Set(node, name, value) ==
    [node EXCEPT !.attrs =
        [a \in DOMAIN @ \cup {name} |-> IF a = name THEN value ELSE @[a]]]

\* not string
Falsy(string) == string = Absent \/ string = <<>>

\* raise name, unless an exception is already in flight
Throw(ctx, name) == IF ctx.exc # "" THEN ctx ELSE [ctx EXCEPT !.exc = name]

\* self.context.op(*args) where computing args may itself have raised
CallV(ctx, op, args, node, role) ==
    IF FirstExc(args) # "" THEN Throw(ctx, FirstExc(args))
    ELSE Call(ctx, op, args, node, role)

(***************************************************************************)
(* Surface.draw, lines 149-168: the transform attribute                    *)
(***************************************************************************)

\* the name of a transformation type as a Python string
TypeName(ttype) ==
    CASE ttype = "scale" -> <<"s", "c", "a", "l", "e">>
      [] ttype = "translate" -> <<"t", "r", "a", "n", "s", "l", "a", "t", "e">>
      [] ttype = "matrix" -> <<"m", "a", "t", "r", "i", "x">>

RECURSIVE TransformValues(_)

\* line 160 unpacks two parts
ValuesOf(parts) ==
    IF Len(parts) < 2 THEN <<Raise("ValueError")>>
    ELSE <<size(parts[1])>> \o TransformValues(parts[2])

\* the while loop of lines 159-161: the values of "v1 v2 ... vn "
TransformValues(transformation) ==
    IF transformation = <<>> THEN <<>>
    ELSE ValuesOf(split(transformation, <<" ">>, 1))

\* a faulty variant of TransformMethod: a matrix is multiplied into the
\* current transformation instead of replacing it
TransformMethodComposing(ttype) ==
    IF ttype = "matrix" THEN "transform" ELSE ttype

\* the context method lines 162-168 call for a transformation type
TransformMethod(ttype) == IF ttype = "matrix" THEN "set_matrix" ELSE ttype

\* lines 166-167
TransformArgs(ttype, values) ==
    IF ttype # "matrix" /\ Len(values) = 1 THEN values \o values ELSE values

\* lines 155-157
Cleaned(transformation, ttype) ==
    strip(normalize(replace(replace(transformation, TypeName(ttype), <<>>),
                            <<"(">>, <<>>)),
          Whitespace) \o <<" ">>

\* the body of the loop of line 153 for one ttype; st = [ctx, t], t being
\* the loop variable transformation.  The call is logged under its ttype.
TransformType(st, ttype, node) ==
    IF st.ctx.exc # "" \/ ~Contains(st.t, TypeName(ttype)) THEN st
    ELSE [ctx |-> CallV(st.ctx, TransformMethod(ttype),
                        TransformArgs(ttype,
                                      TransformValues(Cleaned(st.t, ttype))),
                        node, ttype),
          t   |-> <<>>]

\* the loop of line 152 over the transformations from index i on
RECURSIVE Transformations(_, _, _, _)
Transformations(ctx, transformations, i, node) ==
    IF i > Len(transformations) THEN ctx
    ELSE Transformations(
             TransformType(
                 TransformType(
                     TransformType([ctx |-> ctx, t |-> transformations[i]],
                                   "scale", node),
                     "translate", node),
                 "matrix", node).ctx,
             transformations, i + 1, node)

\* lines 149-168
Transform(ctx, node, id) ==
    IF Falsy(Get(node, "transform")) THEN ctx
    ELSE Transformations(ctx,
                         split(Get(node, "transform"), <<")">>,
                               Len(Get(node, "transform"))),
                         1, id)

(***************************************************************************)
(* Tag handlers.  Each returns [ctx, node, cursor]: the context, the node  *)
(* (handlers write attributes back into it) and self.cursor_position.      *)
(***************************************************************************)

\* Surface.circle; angles are in units of pi
circle(ctx, node, id, cursor) ==
    [ctx    |-> CallV(ctx, "arc",
                      <<Add(size(Get(node, "x")), size(Get(node, "cx"))),
                        Add(size(Get(node, "y")), size(Get(node, "cy"))),
                        size(Get(node, "r")), Num(0), Num(2)>>, id, "geometry"),
     node   |-> node,
     cursor |-> cursor]

\* float(node.get(name, 1))
FloatAttr(node, name) ==
    IF name \in DOMAIN node.attrs THEN float(node.attrs[name]) ELSE Num(1)

\* the opacity the text handler gives its glyph fill (line 350)
TextOpacity(node) == FloatAttr(node, "opacity")

\* set_source_rgba(*color(...)): color() may raise before the call
SetSource(ctx, col, id, role) ==
    IF ctx.exc = "" /\ col.exc # "" THEN Throw(ctx, col.exc)
    ELSE Call(ctx, "set_source_rgba", <<col.r, col.g, col.b, col.a>>, id, role)

\* raise the first exception among values, if any
Check(ctx, values) ==
    IF FirstExc(values) # "" THEN Throw(ctx, FirstExc(values)) ELSE ctx

\* lines 321-325: the default fill and the stripped text
TextNode(node) ==
    [(IF Falsy(Get(node, "fill"))
      THEN Set(node, "fill", <<"#", "0", "0", "0", "0", "0", "0">>)
      ELSE node) EXCEPT !.text = strip(@, {"\n", "\r"})]

\* line 328
FontSize(node) ==
    IF "font-size" \in DOMAIN node.attrs
    THEN size(node.attrs["font-size"])
    ELSE size(<<"1", "2", "p", "t">>)

\* lines 328-337
TextFont(ctx, fs, id) ==
    CallV(Call(Check(ctx, <<fs>>), "select_font_face", <<>>, id, "font"),
          "set_font_size", <<fs>>, id, "font")

\* lines 340-347: the x the text starts at.  text_extents is the backend's:
\* no bearing, and a width equal to the advance.
TextX(ctx, node, x0) ==
    IF Get(node, "text-anchor") = <<"m", "i", "d", "d", "l", "e">>
    THEN Sub(x0, Mul(TextAdvance(ctx, Num(Len(node.text))), Rat(1, 2)))
    ELSE IF Get(node, "text-anchor") = <<"e", "n", "d">>
    THEN Sub(x0, TextAdvance(ctx, Num(Len(node.text))))
    ELSE x0

\* lines 352-356
TextGlyphs(ctx, node, id, x0, x, y, opacity) ==
    Call(Call(Call(SetSource(Call(Check(ctx, <<x0, y, x, opacity>>),
                                  "move_to", <<x, y>>, id, "glyph"),
                             color(Get(node, "fill"), opacity), id, "glyph"),
                   "show_text", <<Num(Len(node.text))>>, id, "glyph"),
              "move_to", <<x, y>>, id, "geometry"),
         "text_path", <<Num(Len(node.text))>>, id, "geometry")

\* lines 357-360
TextEnd(ctx, node, cursor) ==
    IF ctx.exc # "" THEN [ctx |-> ctx, node |-> node, cursor |-> cursor]
    ELSE [ctx    |-> ctx,
          node   |-> Set(node, "fill",
                         <<"#", "0", "0", "0", "0", "0", "0", "0", "0">>),
          cursor |-> get_current_point(ctx)]

TextBody(ctx, node, id, cursor) ==
    TextEnd(TextGlyphs(ctx, node, id, size(Get(node, "x")),
                       TextX(ctx, node, size(Get(node, "x"))),
                       size(Get(node, "y")), TextOpacity(node)),
            node, cursor)

\* Surface.text
text(ctx, node, id, cursor) ==
    TextBody(TextFont(ctx, FontSize(node), id), TextNode(node), id, cursor)

(***************************************************************************)
(* str(x) of a float, as line 314 writes a coordinate back into the node.  *)
(* repr gives the shortest decimal that reads back as the same float: a    *)
(* fixed-point numeral with at least one fraction digit, and a numeral     *)
(* with an exponent for a nonzero magnitude below 0.0001 (and from 1e16    *)
(* on, beyond the numbers of this model).  The numbers here are exact, and *)
(* their expansion is cut after ReprDigits fraction digits.                *)
(***************************************************************************)

ReprDigits == 17

DigitChar(i) == <<"0", "1", "2", "3", "4", "5", "6", "7", "8", "9">>[i + 1]

RECURSIVE NatStr(_)
\* the decimal numeral of the natural number n
NatStr(n) ==
    IF n < 10 THEN <<DigitChar(n)>>
    ELSE NatStr(n \div 10) \o <<DigitChar(n % 10)>>

RECURSIVE FracStr(_, _, _)
\* the fraction digits of rem/d (rem < d), at most k of them
FracStr(rem, d, k) ==
    IF rem = 0 \/ k = 0 THEN <<>>
    ELSE <<DigitChar((rem * 10) \div d)>> \o FracStr((rem * 10) % d, d, k - 1)

\* n/d >= 0 in fixed-point notation: "27.0", "3.5"
Fixed(n, d) ==
    NatStr(n \div d) \o <<".">>
    \o (IF n % d = 0 THEN <<"0">> ELSE FracStr(n % d, d, ReprDigits))

RECURSIVE Exponent(_, _, _)
\* the least e >= e0 with n * 10^e >= d
Exponent(n, d, e0) ==
    IF n >= d THEN e0 ELSE Exponent(n * 10, d, e0 + 1)

\* n/d in (0, 0.0001) with exponent e: "1e-05", "1.5e-05"
Scientific(n, d, e) ==
    NatStr((n * Pow10(e)) \div d)
    \o (IF (n * Pow10(e)) % d = 0 THEN <<>>
        ELSE <<".">> \o FracStr((n * Pow10(e)) % d, d, ReprDigits))
    \o <<"e", "-">> \o (IF e < 10 THEN <<"0">> ELSE <<>>) \o NatStr(e)

\* str(v) of the float v
Str(v) ==
    (IF v.n < 0 THEN <<"-">> ELSE <<>>)
    \o (IF v.n # 0 /\ Abs(v.n) * 10000 < v.d
        THEN Scientific(Abs(v.n), v.d, Exponent(Abs(v.n), v.d, 0))
        ELSE Fixed(Abs(v.n), v.d))

\* lines 314-316 with the sums x + size(dx) and y + size(dy) computed
TspanPlaced(ctx, node, id, cursor, nx, ny) ==
    IF ~IsNum(nx)
    THEN [ctx |-> Throw(ctx, nx.k), node |-> node, cursor |-> cursor]
    ELSE IF ~IsNum(ny)
    THEN [ctx |-> Throw(ctx, ny.k), node |-> Set(node, "x", Str(nx)),
          cursor |-> cursor]
    ELSE text(ctx, Set(Set(node, "x", Str(nx)), "y", Str(ny)), id, cursor)

\* lines 310-313: the explicit coordinate if the node has one, else the
\* cursor's
TspanCoordinate(node, name, c) ==
    IF name \in DOMAIN node.attrs THEN size(node.attrs[name]) ELSE c

\* Surface.tspan; without a text drawn before, self.cursor_position does
\* not exist
tspan(ctx, node, id, cursor) ==
    IF cursor = NoPoint
    THEN [ctx |-> Throw(ctx, "AttributeError"), node |-> node,
          cursor |-> cursor]
    ELSE TspanPlaced(ctx, node, id, cursor,
                     Add(TspanCoordinate(node, "x", cursor.x),
                         size(Get(node, "dx"))),
                     Add(TspanCoordinate(node, "y", cursor.y),
                         size(Get(node, "dy"))))

\* Surface.line
line(ctx, node, id, cursor) ==
    [ctx    |-> CallV(CallV(Check(ctx, <<size(Get(node, "x1")),
                                        size(Get(node, "y1")),
                                        size(Get(node, "x2")),
                                        size(Get(node, "y2"))>>),
                            "move_to",
                            <<size(Get(node, "x1")), size(Get(node, "y1"))>>,
                            id, "geometry"),
                      "line_to",
                      <<size(Get(node, "x2")), size(Get(node, "y2"))>>,
                      id, "geometry"),
     node   |-> node,
     cursor |-> cursor]

\* the opacity of a paint channel (lines 175-177): the element opacity
\* times the channel's own opacity attribute
ChannelOpacity(node, attr) ==
    Mul(FloatAttr(node, "opacity"), FloatAttr(node, attr))

\* lines 179-182
Stroke(ctx, node, id) ==
    Call(SetSource(CallV(ctx, "set_line_width",
                         <<size(Get(node, "stroke-width"))>>, id, "stroke"),
                   color(Get(node, "stroke"),
                         ChannelOpacity(node, "stroke-opacity")),
                   id, "stroke"),
         "stroke_preserve", <<>>, id, "stroke")

\* lines 185-186
FillRule(ctx, node, id) ==
    IF Get(node, "fill-rule") = <<"e", "v", "e", "n", "o", "d", "d">>
    THEN Call(ctx, "set_fill_rule", <<>>, id, "fill")
    ELSE ctx

\* a faulty variant of Fill: the path is kept after the fill, as
\* fill_preserve would
FillPreserving(ctx, node, id) ==
    Call(SetSource(ctx, color(Get(node, "fill"),
                              ChannelOpacity(node, "fill-opacity")),
                   id, "fill"),
         "stroke_preserve", <<>>, id, "fill")

\* lines 187-188
Fill(ctx, node, id) ==
    Call(SetSource(ctx, color(Get(node, "fill"),
                              ChannelOpacity(node, "fill-opacity")),
                   id, "fill"),
         "fill", <<>>, id, "fill")

\* a faulty variant of Paint: the node is filled before it is stroked
PaintFillFirst(ctx, node, id) ==
    Stroke(Fill(FillRule(Check(ctx, <<FloatAttr(node, "opacity"),
                                      FloatAttr(node, "stroke-opacity"),
                                      FloatAttr(node, "fill-opacity")>>),
                         node, id),
                node, id),
           node, id)

\* Surface.draw, lines 174-188: stroke and fill
Paint(ctx, node, id) ==
    Fill(FillRule(Stroke(Check(ctx, <<FloatAttr(node, "opacity"),
                                      FloatAttr(node, "stroke-opacity"),
                                      FloatAttr(node, "fill-opacity")>>),
                         node, id),
                  node, id),
         node, id)

(***************************************************************************)
(* Surface.path.  loc holds the local variables of the running call:       *)
(* string, letter, last_letter and the control points x2, y2, x3, y3.      *)
(***************************************************************************)

\* line 216, for every letter: string.replace(letter, " %s " % letter).  A
\* replacement inserts only spaces and the letter itself, so the 52 passes
\* amount to one pass over the characters.
RECURSIVE PadLetters(_)
PadLetters(s) ==
    IF s = <<>> THEN <<>>
    ELSE (IF Contains(ASCII_LETTERS, <<s[1]>>) THEN <<" ", s[1], " ">>
          ELSE <<s[1]>>) \o PadLetters(Tail(s))

\* lines 212-220: the locals when the loop is entered
PathLocals(node) ==
    [string      |-> normalize(PadLetters(
                         strip(IF "d" \in DOMAIN node.attrs
                               THEN node.attrs["d"] ELSE <<>>, Whitespace)
                         \o <<"X", "X">>)),
     \* letter is the variable of the loop of line 215, which leaves it
     \* bound to the last of ASCII_LETTERS
     letter      |-> <<ASCII_LETTERS[Len(ASCII_LETTERS)]>>,
     last_letter |-> Absent,
     x2 |-> None, y2 |-> None, x3 |-> None, y3 |-> None]

\* lines 209-210
PathNode(node) ==
    IF Falsy(Get(node, "stroke-width"))
    THEN Set(node, "stroke-width", <<"1">>) ELSE node

\* a faulty variant of Branch: a letter without a branch of its own is
\* skipped as if it closed the path
BranchLenient(letter) ==
    IF letter \in {<<"c">>, <<"C">>, <<"h">>, <<"V">>, <<"l">>, <<"L">>,
                   <<"m">>, <<"M">>, <<"S">>, <<"s">>, <<"v">>, <<"X">>}
    THEN letter[1]
    ELSE "z"

\* the branch of the if/elif chain of lines 226-295 a letter takes
Branch(letter) ==
    IF letter \in {<<"c">>, <<"C">>, <<"h">>, <<"V">>, <<"l">>, <<"L">>,
                   <<"m">>, <<"M">>, <<"S">>, <<"s">>, <<"v">>, <<"X">>}
    THEN letter[1]
    ELSE IF lower(letter) = <<"z">> THEN "z"
    ELSE "raise"

\* a faulty variant of Method: the relative line is drawn as an absolute one
MethodAbsoluteLine(letter) ==
    CASE letter = <<"c">> -> "rel_curve_to"
      [] letter = <<"C">> -> "curve_to"
      [] letter = <<"h">> -> "rel_line_to"
      [] letter = <<"V">> -> "line_to"
      [] letter = <<"l">> -> "line_to"
      [] letter = <<"L">> -> "line_to"
      [] letter = <<"m">> -> "rel_move_to"
      [] letter = <<"M">> -> "move_to"
      [] letter = <<"S">> -> "curve_to"
      [] letter = <<"s">> -> "rel_curve_to"
      [] letter = <<"v">> -> "rel_line_to"
      [] OTHER -> "close_path"

\* the context method each branch calls
Method(letter) ==
    CASE letter = <<"c">> -> "rel_curve_to"
      [] letter = <<"C">> -> "curve_to"
      [] letter = <<"h">> -> "rel_line_to"
      [] letter = <<"V">> -> "line_to"
      [] letter = <<"l">> -> "rel_line_to"
      [] letter = <<"L">> -> "line_to"
      [] letter = <<"m">> -> "rel_move_to"
      [] letter = <<"M">> -> "move_to"
      [] letter = <<"S">> -> "curve_to"
      [] letter = <<"s">> -> "rel_curve_to"
      [] letter = <<"v">> -> "rel_line_to"
      [] OTHER -> "close_path"

\* last_letter in letters (lines 266, 274): "TypeError" for None in a
\* string, else "in" or "not in"
LastLetterIn(loc, letters) ==
    IF loc.last_letter = Absent THEN "TypeError"
    ELSE IF Contains(letters, loc.last_letter) THEN "in" ELSE "not in"

\* x1 = x3 - x2 if last_letter in letters else x, and y1 likewise, the
\* test having come out as prev
Reflected(loc, prev, other) ==
    IF prev = "TypeError"
    THEN [x |-> Raise("TypeError"), y |-> Raise("TypeError")]
    ELSE IF prev = "in"
    THEN [x |-> Sub(loc.x3, loc.x2), y |-> Sub(loc.y3, loc.y2)]
    ELSE other

\* lines 274-275: the first control point of a relative smooth curve
SmoothRel(loc) ==
    Reflected(loc, LastLetterIn(loc, <<"c", "s">>), [x |-> Num(0), y |-> Num(0)])

\* lines 265-267: the first control point of an absolute smooth curve
SmoothAbs(ctx, loc) ==
    Reflected(loc, LastLetterIn(loc, <<"C", "S">>), get_current_point(ctx))

RECURSIVE Points(_, _)

\* the point p followed by the points q
Prepend(p, q) ==
    [exc |-> q.exc, pts |-> <<p.x, p.y>> \o q.pts, rest |-> q.rest]

PointsAfter(p, string, n) ==
    IF p.exc # "" THEN [exc |-> p.exc, pts |-> <<>>, rest |-> string]
    ELSE Prepend(p, Points(p.rest, n - 1))

\* the n points a branch reads with point(), in order: [exc, pts, rest]
Points(string, n) ==
    IF n = 0 THEN [exc |-> "", pts |-> <<>>, rest |-> string]
    ELSE PointsAfter(point(string), string, n)

\* lines 297-299, unless the iteration raised
EndIter(ctx, l) ==
    IF ctx.exc # "" THEN [ctx |-> ctx, loc |-> l]
    ELSE [ctx |-> ctx,
          loc |-> [l EXCEPT !.last_letter = l.letter,
                            !.string = strip(@, Whitespace)]]

\* c, C: three points
Curve(ctx, l, q, id) ==
    IF q.exc # "" THEN [ctx |-> Throw(ctx, q.exc), loc |-> l]
    ELSE EndIter(Call(ctx, Method(l.letter), q.pts, id, "geometry"),
                 [l EXCEPT !.string = q.rest,
                           !.x2 = q.pts[3], !.y2 = q.pts[4],
                           !.x3 = q.pts[5], !.y3 = q.pts[6]])

\* l, L, m, M: one point
MoveOrLine(ctx, l, q, id) ==
    IF q.exc # "" THEN [ctx |-> Throw(ctx, q.exc), loc |-> l]
    ELSE EndIter(Call(ctx, Method(l.letter), q.pts, id, "geometry"),
                 [l EXCEPT !.string = q.rest])

\* h, V, v: one length.  V draws to (x, 0) like h, but absolute.
Straight(ctx, l, q, id) ==
    IF Len(q) < 2 THEN [ctx |-> Throw(ctx, "ValueError"), loc |-> l]
    ELSE EndIter(CallV(ctx, Method(l.letter),
                       IF l.letter = <<"v">> THEN <<Num(0), size(q[1])>>
                       ELSE <<size(q[1]), Num(0)>>,
                       id, "geometry"),
                 [l EXCEPT !.string = q[2]])

\* s, S: the reflected control point p1, then two points
Smooth(ctx, l, p1, q, id) ==
    IF IsExc(p1.x) THEN [ctx |-> Throw(ctx, p1.x.k), loc |-> l]
    ELSE IF q.exc # "" THEN [ctx |-> Throw(ctx, q.exc), loc |-> l]
    ELSE EndIter(Call(ctx, Method(l.letter), <<p1.x, p1.y>> \o q.pts,
                      id, "geometry"),
                 [l EXCEPT !.string = q.rest,
                           !.x2 = q.pts[1], !.y2 = q.pts[2],
                           !.x3 = q.pts[3], !.y3 = q.pts[4]])

\* lines 226-295 for the locals l, the letter taken
Dispatch(ctx, l, br, id) ==
    CASE br \in {"c", "C"} -> Curve(ctx, l, Points(l.string, 3), id)
      [] br \in {"l", "L", "m", "M"} ->
           MoveOrLine(ctx, l, Points(l.string, 1), id)
      [] br \in {"h", "V", "v"} ->
           Straight(ctx, l, split(l.string, <<" ">>, 1), id)
      [] br = "s" -> Smooth(ctx, l, SmoothRel(l), Points(l.string, 2), id)
      [] br = "S" -> Smooth(ctx, l, SmoothAbs(ctx, l), Points(l.string, 2), id)
      [] br = "X" -> EndIter(ctx, [l EXCEPT !.string = <<>>])
      [] br = "z" ->
           EndIter(Call(ctx, Method(l.letter), <<>>, id, "geometry"), l)
      [] OTHER -> [ctx |-> Throw(ctx, "NotImplementedError"), loc |-> l]

\* lines 223-225 on the stripped string s0 split at its first space:
\* [exc, loc]
TakeLetter(loc, s0, parts) ==
    IF ~Contains(ASCII_LETTERS, parts[1])
    THEN [exc |-> "", loc |-> [loc EXCEPT !.string = s0]]
    ELSE IF Len(parts) < 2
    THEN [exc |-> "ValueError", loc |-> [loc EXCEPT !.string = s0]]
    ELSE [exc |-> "",
          loc |-> [loc EXCEPT !.string = parts[2], !.letter = parts[1]]]

DispatchTaken(ctx, t, id) ==
    IF t.exc # "" THEN [ctx |-> Throw(ctx, t.exc), loc |-> t.loc]
    ELSE Dispatch(ctx, t.loc, Branch(t.loc.letter), id)

\* one iteration of the loop of line 222, for a non-empty string:
\* [ctx, loc]
PathStep(ctx, loc, id) ==
    DispatchTaken(ctx,
                  TakeLetter(loc, strip(loc.string, Whitespace),
                             split(strip(loc.string, Whitespace), <<" ">>, 1)),
                  id)

(***************************************************************************)
(* The documents rendered.                                                 *)
(***************************************************************************)

\* the number of commands of a path's d attribute
MaxCmds == 3

\* the number of nodes of a document
MaxNodes == 3

\* commands a d attribute is made of: the lettered commands with the
\* coordinates they need in the separator styles normalize() handles, an
\* unsupported letter, a command short of a coordinate, a bare number and
\* the letter the sentinel is made of
Pieces ==
    { <<"M", "0", " ", "0">>,
      <<"m", "1", ",", "2">>,
      <<"L", "1", "0", " ", "1", "0">>,
      <<"l", "-", "1", "-", "2">>,
      <<"C", "0", " ", "0", " ", "1", " ", "1", " ", "2", " ", "2">>,
      <<"c", "1", " ", "1", " ", "2", " ", "2", " ", "3", " ", "3">>,
      <<"s", "4", " ", "4", " ", "5", " ", "5">>,
      <<"S", "4", " ", "4", " ", "5", " ", "5">>,
      <<"Z">>,
      <<"z">>,
      <<"h", "3">>,
      <<"v", "3">>,
      <<"V", "3">>,
      <<"A", "1", " ", "1">>,
      <<"L", "5">>,
      <<"7">>,
      <<"X">> }

\* every concatenation of at most n pieces
RECURSIVE PathData(_)
PathData(n) ==
    IF n = 0 THEN {<<>>}
    ELSE LET shorter == PathData(n - 1) IN
         shorter \cup {d \o p : d \in shorter, p \in Pieces}

NoAttrs == [a \in {} |-> <<>>]

Node(tag, attrs, txt) ==
    [tag |-> tag, attrs |-> attrs, text |-> txt, children |-> <<>>,
     root |-> FALSE]

\* the nodes a document is made of, apart from its root
Templates ==
    { Node("g", NoAttrs, <<>>),
      Node("g", [transform |-> <<"s", "c", "a", "l", "e", "(", "2", ")">>], <<>>),
      Node("g", [transform |-> <<"t", "r", "a", "n", "s", "l", "a", "t", "e", "(", "1", ",", "2", ")", " ", "m", "a", "t", "r", "i", "x", "(", "1", ",", "0", ",", "0", ",", "1", ",", "5", ",", "5", ")">>], <<>>),
      Node("g", [transform |-> <<"m", "a", "t", "r", "i", "x", "(", "2", " ", "0", " ", "0", " ", "2", " ", "-", "1", " ", "3", ")", "t", "r", "a", "n", "s", "l", "a", "t", "e", "(", "3", ")", "s", "c", "a", "l", "e", "(", "2", ",", "3", ")">>, opacity |-> <<"0", ".", "5">>], <<>>),
      Node("path", [d |-> <<"M", "0", " ", "0", "L", "1", " ", "1", "Z">>, stroke |-> <<"#", "0", "0", "0">>, fill |-> <<"#", "f", "f", "0", "0", "0", "0">>,
                    opacity |-> <<"0", ".", "5">>]
                   @@ ("fill-rule" :> <<"n", "o", "n", "z", "e", "r", "o">>), <<>>),
      Node("path", [d |-> <<"M", "0", " ", "0", "A", "1", " ", "1">>], <<>>),
      Node("text", [fill |-> <<"#", "f", "f", "0", "0", "0", "0">>, x |-> <<"3">>] @@ ("fill-opacity" :> <<"0", ".", "5">>),
           <<"a", "b">>),
      Node("circle", [cx |-> <<"5">>, cy |-> <<"5">>, r |-> <<"4">>,
                      fill |-> <<"#", "f", "f", "0", "0", "0", "0", "8", "0">>, stroke |-> <<"#", "0", "0", "0">>, opacity |-> <<"0", ".", "5">>]
                     @@ ("stroke-width" :> <<"2">>)
                     @@ ("stroke-opacity" :> <<"0", ".", "5">>)
                     @@ ("fill-rule" :> <<"e", "v", "e", "n", "o", "d", "d">>), <<>>),
      Node("line", [x1 |-> <<"1">>, y1 |-> <<"2">>, x2 |-> <<"3">>, y2 |-> <<"4">>, stroke |-> <<"#", "0", "0", "0">>], <<>>),
      Node("text", [x |-> <<"0", ".", "0", "0", "0", "0", "1">>], <<>>),
      Node("tspan", NoAttrs, <<"c">>),
      Node("tspan", [x |-> <<"7">>, dx |-> <<"1">>, dy |-> <<"2">>], <<"c">>),
      Node("read", NoAttrs, <<>>) }

\* the root element, with and without a transform of its own
Roots ==
    { [Node("svg", NoAttrs, <<>>) EXCEPT !.root = TRUE],
      [Node("svg", [transform |-> <<"s", "c", "a", "l", "e", "(", "2", ")">>], <<>>) EXCEPT !.root = TRUE] }

\* the children of node i under the parent vector par, in document order
ChildrenOf(par, i) ==
    LET RECURSIVE from(_)
        from(j) == IF j > Len(par) THEN <<>>
                   ELSE (IF par[j] = i THEN <<j>> ELSE <<>>) \o from(j + 1)
    IN  from(2)

\* the documents of n nodes; par is the parent vector of a tree of n nodes:
\* node 1 is the root, every other node hangs under an earlier one
Documents(n) ==
    { [i \in 1..n |->
         [(IF i = 1 THEN root ELSE kinds[i]) EXCEPT
             !.children = ChildrenOf(par, i)]] :
      par \in {p \in [1..n -> 0..n] :
                  p[1] = 0 /\ \A i \in 2..n : p[i] \in 1..(i - 1)},
      root \in Roots,
      kinds \in [2..n -> Templates] }

\* a root with one path child
PathDocument(d) ==
    << [Node("svg", NoAttrs, <<>>) EXCEPT !.root = TRUE, !.children = <<2>>],
       Node("path", [d |-> d], <<>>) >>

\* lengths: a numeral followed by each unit symbol of UNITS, the empty
\* text and a bare number
Lengths ==
    {v \o UNITS[u][1] :
        v \in { <<"0">>, <<"1">>, <<"-", "3", ".", "5">>, <<"1", "0", "0">> },
        u \in 1..Len(UNITS)}
    \cup {<<>>, <<"4", "2">>}

\* a root with one child placed at x = s
LengthDocument(s) ==
    << [Node("svg", NoAttrs, <<>>) EXCEPT !.root = TRUE, !.children = <<2>>],
       Node("g", [x |-> s], <<>>) >>

\* transform attributes: the separators and numerals of transform lists
TransformLists ==
    { <<"s", "c", "a", "l", "e", "(", "2", ")", ",", "t", "r", "a", "n", "s", "l", "a", "t", "e", "(", "1", " ", "2", ")">>,
      <<"t", "r", "a", "n", "s", "l", "a", "t", "e", "(", "-", "1", "-", "2", ")">>,
      <<"s", "c", "a", "l", "e", "(", " ", "2", " ", ",", " ", "3", " ", ")">>,
      <<"s", "c", "a", "l", "e", "(", ".", "5", ")", " ", "t", "r", "a", "n", "s", "l", "a", "t", "e", "(", "1", ".", "5", ")">>,
      <<"s", "c", "a", "l", "e", "(", "1", "e", "-", "3", ")">>,
      <<"t", "r", "a", "n", "s", "l", "a", "t", "e", "(", "+", "5", ",", "3", ")">> }

\* a root with one child of transform t
TransformDocument(t) ==
    << [Node("svg", NoAttrs, <<>>) EXCEPT !.root = TRUE, !.children = <<2>>],
       Node("g", [transform |-> t], <<>>) >>

\* a node that refers to another document
UseNode ==
    Node("use", [x |-> <<"1">>, y |-> <<"2">>]
                @@ ("{http://www.w3.org/1999/xlink}href" :> <<"a", ".", "s", "v", "g">>), <<>>)

\* documents with a use node: alone, as child and as sibling of a node
\* with geometry, and followed by one
UseDocuments ==
    { << [Node("svg", NoAttrs, <<>>) EXCEPT !.root = TRUE, !.children = <<2>>],
         UseNode >>,
      << [Node("svg", NoAttrs, <<>>) EXCEPT !.root = TRUE, !.children = <<2>>],
         [Node("circle", [cx |-> <<"5">>, cy |-> <<"5">>, r |-> <<"4">>], <<>>)
            EXCEPT !.children = <<3>>],
         UseNode >>,
      << [Node("svg", NoAttrs, <<>>) EXCEPT !.root = TRUE, !.children = <<2, 3>>],
         Node("circle", [cx |-> <<"5">>, cy |-> <<"5">>, r |-> <<"4">>], <<>>),
         UseNode >>,
      << [Node("svg", NoAttrs, <<>>) EXCEPT !.root = TRUE, !.children = <<2, 3>>],
         UseNode,
         Node("line", [x1 |-> <<"1">>, y1 |-> <<"2">>, x2 |-> <<"3">>, y2 |-> <<"4">>], <<>>) >> }

\* what Tree(href, node) may give: the failure <<>>, and trees with and
\* without a viewBox, width and height, whose first node is or is not
\* flagged as root
Loadable ==
    { <<>>,
      << [Node("svg", [viewBox |-> <<"0", " ", "0", " ", "5", "0", " ", "5", "0">>], <<>>) EXCEPT !.root = TRUE] >>,
      << [Node("svg", [viewBox |-> <<"1", "0", " ", "2", "0", " ", "5", "0", " ", "5", "0">>, width |-> <<"1", "0", "0">>, height |-> <<"1", "0", "0">>], <<>>)
            EXCEPT !.root = TRUE, !.children = <<2>>],
         Node("circle", [cx |-> <<"5">>, cy |-> <<"5">>, r |-> <<"4">>], <<>>) >>,
      << [Node("svg", NoAttrs, <<>>) EXCEPT !.children = <<2>>],
         Node("path", [d |-> <<"M", "0", " ", "0", "L", "1", " ", "1", "Z">>], <<>>) >>,
      << [Node("svg", [viewBox |-> <<"0", " ", "0", " ", "0", " ", "5", "0">>], <<>>) EXCEPT !.root = TRUE] >> }

Trees ==
    UseDocuments \cup
    {PathDocument(d) : d \in PathData(MaxCmds)}
    \cup UNION {Documents(n) : n \in 1..MaxNodes}
    \cup {LengthDocument(s) : s \in Lengths}
    \cup {TransformDocument(t) : t \in TransformLists}

(***************************************************************************)
(* The renderer                                                            *)
(***************************************************************************)

VARIABLES
    tree,             \* the document: a sequence of nodes, the root first
    stack,            \* the active calls of draw: [node, child], child
                      \* counting the children already drawn
    pc,               \* where the innermost call of draw stands
    loc,              \* the locals of the running call of Surface.path
    context,          \* self.context
    cursor_position   \* self.cursor_position

vars == <<tree, stack, pc, loc, context, cursor_position>>

\* the locals of Surface.path while no call of it is running
NoLocals ==
    [string |-> <<>>, letter |-> <<>>, last_letter |-> Absent,
     x2 |-> None, y2 |-> None, x3 |-> None, y3 |-> None]

\* Surface.__init__ up to its call of draw(tree)
Init ==
    /\ tree \in Trees
    /\ stack = <<[node |-> 1, child |-> 0]>>
    /\ pc = "draw"
    /\ loc = NoLocals
    /\ context = NewContext
    /\ cursor_position = NoPoint

\* the node the innermost call of draw is drawing
Current == stack[Len(stack)].node

\* del node[name]
Del(node, name) ==
    [node EXCEPT !.attrs = [a \in DOMAIN @ \ {name} |-> @[a]]]

\* the index of the first whitespace character of s from i on, 0 if none
RECURSIVE FirstBlank(_, _)
FirstBlank(s, i) ==
    IF i > Len(s) THEN 0
    ELSE IF s[i] \in Whitespace THEN i
    ELSE FirstBlank(s, i + 1)

\* s.split(): the words of s between runs of whitespace
RECURSIVE Words(_)
Words(s) ==
    IF lstrip(s, Whitespace) = <<>> THEN <<>>
    ELSE IF FirstBlank(lstrip(s, Whitespace), 1) = 0
    THEN <<lstrip(s, Whitespace)>>
    ELSE <<SubSeq(lstrip(s, Whitespace), 1,
                  FirstBlank(lstrip(s, Whitespace), 1) - 1)>>
         \o Words(SubSeq(lstrip(s, Whitespace),
                         FirstBlank(lstrip(s, Whitespace), 1),
                         Len(lstrip(s, Whitespace))))

\* a / b on floats
Quotient(a, b) ==
    IF IsExc(a) THEN a ELSE IF IsExc(b) THEN b
    ELSE IF ~IsNum(a) \/ ~IsNum(b) THEN Raise("TypeError")
    ELSE IF b.n = 0 THEN Raise("ZeroDivisionError")
    ELSE Div(a, b)

\* a or b: b when a is None or zero
Or(a, b) == IF IsExc(a) THEN a ELSE IF ~IsNum(a) \/ a.n = 0 THEN b ELSE a

\* -a
Neg(a) == Sub(Num(0), a)

\* lines 131-134 with the four values of the viewBox
ViewBoxApplied(ctx, width, height, x, y, x_size, y_size, id) ==
    CallV(CallV(ctx, "scale",
                <<Quotient(Or(width, x_size), x_size),
                  Quotient(Or(height, y_size), y_size)>>, id, "use"),
          "translate", <<Neg(x), Neg(y)>>, id, "use")

\* line 130: the sizes of the words of the viewBox, unpacked into four
\* names
ViewBox(ctx, width, height, sizes, id) ==
    IF FirstExc(sizes) # "" THEN Throw(ctx, FirstExc(sizes))
    ELSE IF Len(sizes) # 4 THEN Throw(ctx, "ValueError")
    ELSE ViewBoxApplied(ctx, width, height,
                        sizes[1], sizes[2], sizes[3], sizes[4], id)

\* Surface._set_context_size, called for node id
SetContextSize(ctx, width, height, viewbox, id) ==
    IF FirstExc(<<width, height>>) # ""
    THEN Throw(ctx, FirstExc(<<width, height>>))
    ELSE IF Falsy(viewbox) THEN ctx
    ELSE ViewBox(ctx, width, height,
                 [i \in 1..Len(Words(viewbox)) |-> size(Words(viewbox)[i])],
                 id)

\* lines 369-371: os.path.join raises TypeError without href; Tree(href,
\* node) belongs to cairosvg/parser.py and reads a file: it either fails or
\* gives a tree, loaded = <<>> standing for the failure
Load(ctx, node, loaded) ==
    IF Get(node, "{http://www.w3.org/1999/xlink}href") = Absent THEN Throw(ctx, "TypeError")
    ELSE IF loaded = <<>> THEN Throw(ctx, "IOError")
    ELSE ctx

\* the nodes of the loaded tree placed after the n nodes of the tree
Placed(loaded, n) ==
    [i \in 1..Len(loaded) |->
        [loaded[i] EXCEPT !.children = [k \in 1..Len(@) |-> @[k] + n]]]

\* line 364
UseTranslate(ctx, node, id) ==
    CallV(ctx, "translate", <<size(Get(node, "x")), size(Get(node, "y"))>>,
          id, "use")

\* lines 365-368, reached when the translate t has not raised
UseNodeAfter(t, node) ==
    IF t.exc # "" THEN node ELSE Del(Del(node, "x"), "y")

\* lines 369-374 of Surface.use after the translate t, for the tree
\* loaded: the context in which draw(tree) is called
UseContext(t, node, id, loaded) ==
    IF Load(t, node, loaded).exc # "" THEN Load(t, node, loaded)
    ELSE SetContextSize(t, size(Get(loaded[1], "width")),
                        size(Get(loaded[1], "height")),
                        Get(loaded[1], "viewBox"), id)

\* the names class Surface defines (lines 107-375) and the attributes
\* __init__ and _create_surface set on the instance (lines 112, 121-122)
SurfaceAttributes ==
    {"__init__", "_create_surface", "_set_context_size", "read", "draw",
     "circle", "path", "line", "tspan", "text", "use",
     "bytesio", "cairo", "context"}

\* hasattr(self, node.tag), line 171; cursor_position is an attribute once
\* a text has been drawn (line 360)
HasHandler(tag, cursor) ==
    \/ tag \in SurfaceAttributes
    \/ (tag = "cursor_position" /\ cursor # NoPoint)

\* getattr(self, node.tag)(node), line 172, for the attributes that run in
\* one step.  read and __init__ take no node, _create_surface and
\* _set_context_size take three arguments, and bytesio, cairo, context and
\* cursor_position cannot be called: each of these calls is a TypeError.
Handler(ctx, node, id, cursor) ==
    CASE node.tag = "circle" -> circle(ctx, node, id, cursor)
      [] node.tag = "line" -> line(ctx, node, id, cursor)
      [] node.tag = "text" -> text(ctx, node, id, cursor)
      [] node.tag = "tspan" -> tspan(ctx, node, id, cursor)
      [] node.tag \notin {"circle", "line", "text", "tspan"}
           /\ HasHandler(node.tag, cursor)
           -> [ctx |-> Throw(ctx, "TypeError"), node |-> node,
               cursor |-> cursor]
      [] OTHER -> [ctx |-> ctx, node |-> node, cursor |-> cursor]

\* an exception leaves draw: nothing in surface.py catches it, so every
\* active call is abandoned where it stands
Propagate(ctx) ==
    /\ context' = ctx
    /\ pc' = "raised"
    /\ stack' = <<>>

\* lines 145-168: save, move to (x, y), and the transform
Enter(ctx, node, id) ==
    Transform(CallV(Call(ctx, "save", <<>>, id, "scope"), "move_to",
                    <<size(Get(node, "x")), size(Get(node, "y"))>>,
                    id, "position"),
              node, id)

\* lines 170-172 for a handler that has returned h
Handled(h, id) ==
    /\ tree' = [tree EXCEPT ![id] = h.node]
    /\ cursor_position' = h.cursor
    /\ loc' = loc
    /\ IF h.ctx.exc # "" THEN Propagate(h.ctx)
       ELSE context' = h.ctx /\ pc' = "paint" /\ stack' = stack

\* lines 170-172 for a use node: Surface.use in the context u it has
\* reached when it calls draw(tree), line 375, the node being as lines
\* 365-368 left it
Used(u, node, id, loaded) ==
    /\ UNCHANGED <<loc, cursor_position>>
    /\ IF u.exc # ""
       THEN Propagate(u) /\ tree' = [tree EXCEPT ![id] = node]
       ELSE /\ context' = u
            /\ tree' = [tree EXCEPT ![id] = node] \o Placed(loaded, Len(tree))
            /\ stack' = Append(stack, [node |-> Len(tree) + 1, child |-> 0])
            /\ pc' = "draw"

\* lines 170-172 in the context c left by lines 145-168
Dispatched(c, node, id) ==
    IF c.exc # ""
    THEN Propagate(c) /\ UNCHANGED <<tree, loc, cursor_position>>
    ELSE IF node.tag = "path"
    THEN /\ tree' = [tree EXCEPT ![id] = PathNode(node)]
         /\ loc' = PathLocals(node)
         /\ context' = c
         /\ pc' = "path"
         /\ UNCHANGED <<stack, cursor_position>>
    ELSE IF node.tag = "use"
    THEN \E loaded \in Loadable :
            Used(UseContext(UseTranslate(c, node, id), node, id, loaded),
                 UseNodeAfter(UseTranslate(c, node, id), node), id, loaded)
    ELSE IF node.tag = "draw"
    THEN \* self.draw(node): draw calls itself on the same node
         /\ context' = c
         /\ stack' = Append(stack, [node |-> id, child |-> 0])
         /\ pc' = "draw"
         /\ UNCHANGED <<tree, loc, cursor_position>>
    ELSE Handled(Handler(c, node, id, cursor_position), id)

\* draw(node), lines 145-172: save, move to (x, y), the transform, and the
\* tag handler (for a path, up to the loop of its handler)
DrawEnter ==
    /\ pc = "draw"
    /\ Dispatched(Enter(context, tree[Current], Current), tree[Current], Current)

\* one iteration of the loop of Surface.path, lines 222-299
Iterated(r) ==
    /\ loc' = r.loc
    /\ IF r.ctx.exc # "" THEN Propagate(r.ctx)
       ELSE /\ context' = r.ctx
            /\ pc' = IF r.loc.string = <<>> THEN "paint" ELSE "path"
            /\ stack' = stack

PathIter ==
    /\ pc = "path"
    /\ Iterated(PathStep(context, loc, Current))
    /\ UNCHANGED <<tree, cursor_position>>

\* draw(node), lines 174-188: stroke and fill
Painted(c) ==
    IF c.exc # "" THEN Propagate(c)
    ELSE context' = c /\ pc' = "children" /\ stack' = stack

DrawPaint ==
    /\ pc = "paint"
    /\ Painted(Paint(context, tree[Current], Current))
    /\ UNCHANGED <<tree, loc, cursor_position>>

\* draw(node), lines 191-192: the next child
DrawChild ==
    /\ pc = "children"
    /\ LET top == stack[Len(stack)] IN
       /\ top.child < Len(tree[top.node].children)
       /\ stack' = Append([stack EXCEPT ![Len(stack)].child = @ + 1],
                          [node |-> tree[top.node].children[top.child + 1],
                           child |-> 0])
    /\ pc' = "draw"
    /\ UNCHANGED <<tree, loc, context, cursor_position>>

\* a faulty variant of Restores: every node's graphics state is restored
RestoresAlways(node) == TRUE

\* line 194: the root's graphics state is not restored
Restores(node) == ~node.root

\* draw(node), lines 194-197: after the last child, restore and return
Returned(c) ==
    IF c.exc # "" THEN Propagate(c)
    ELSE /\ context' = c
         /\ stack' = SubSeq(stack, 1, Len(stack) - 1)
         /\ pc' = IF Len(stack) = 1 THEN "done"
                  ELSE IF \E k \in 1..Len(tree[stack[Len(stack) - 1].node].children) :
                             tree[stack[Len(stack) - 1].node].children[k] = Current
                  THEN "children"
                  ELSE "paint"   \* draw(tree) of Surface.use has returned

DrawReturn ==
    /\ pc = "children"
    /\ stack[Len(stack)].child = Len(tree[Current].children)
    /\ Returned(IF Restores(tree[Current])
                THEN Call(context, "restore", <<>>, Current, "scope")
                ELSE context)
    /\ UNCHANGED <<tree, loc, cursor_position>>

Next == DrawEnter \/ PathIter \/ DrawPaint \/ DrawChild \/ DrawReturn

Spec == Init /\ [][Next]_vars

(***************************************************************************)
(* Properties.  The calls of a run are read off the log context.calls,     *)
(* which holds every call as long as it is shorter than MaxCalls.          *)
(***************************************************************************)

\* the log holds every call issued so far
LogComplete == Len(context.calls) < MaxCalls

\* the number of calls of the method op issued so far
Issued(op) ==
    Cardinality({i \in 1..Len(context.calls) : context.calls[i].op = op})

\* the tree has no use node
NoUseNode == \A id \in 1..Len(tree) : tree[id].tag # "use"

C2_SavesRestoredOnError ==
    pc = "raised" =>
        /\ Issued("restore") = Issued("save")
        /\ context.saved = <<>>

\* C2: an error has left draw while graphics states were saved
C2_Witness ==
    /\ pc = "raised"
    /\ Issued("save") > 1
    /\ Issued("restore") = 0
    /\ Len(context.saved) = Issued("save")

(***************************************************************************)
(* The commands of a d attribute as the SVG path grammar reads them: a     *)
(* letter, then the numbers up to the next letter, numbers being separated *)
(* by spaces or commas or by the minus sign of the next one.               *)
(***************************************************************************)

\* the number read so far is complete: it joins the last command
GrammarFlush(cmds, num) ==
    IF num = <<>> THEN cmds
    ELSE IF cmds = <<>> THEN <<[letter |-> "", nums |-> <<num>>]>>
    ELSE [cmds EXCEPT ![Len(cmds)].nums = Append(@, num)]

RECURSIVE GrammarScan(_, _, _)
GrammarScan(s, cmds, num) ==
    IF s = <<>> THEN GrammarFlush(cmds, num)
    ELSE IF s[1] \in Digits THEN GrammarScan(Tail(s), cmds, Append(num, s[1]))
    ELSE IF s[1] = "-"
    THEN GrammarScan(Tail(s), GrammarFlush(cmds, num), <<"-">>)
    ELSE IF s[1] \in {" ", ","}
    THEN GrammarScan(Tail(s), GrammarFlush(cmds, num), <<>>)
    ELSE GrammarScan(Tail(s),
                     Append(GrammarFlush(cmds, num),
                            [letter |-> s[1], nums |-> <<>>]),
                     <<>>)

\* the commands of d, each [letter, nums]
GrammarCommands(d) == GrammarScan(d, <<>>, <<>>)

\* an integer numeral, with or without sign
GrammarIsNumber(num) ==
    isdigit(IF num[1] = "-" THEN Tail(num) ELSE num)

GrammarValue(num) ==
    IF num[1] = "-" THEN Num(-DigitsValue(Tail(num)))
    ELSE Num(DigitsValue(num))

\* the number of coordinates the commands of C3 take
GrammarArity(letter) ==
    CASE letter \in {"M", "m", "L", "l"} -> 2
      [] letter \in {"C", "c"} -> 6
      [] letter \in {"Z", "z"} -> 0
      [] OTHER -> -1

\* the drawing call the commands of C3 stand for
GrammarCall(letter) ==
    CASE letter = "M" -> "move_to"
      [] letter = "m" -> "rel_move_to"
      [] letter = "L" -> "line_to"
      [] letter = "l" -> "rel_line_to"
      [] letter = "C" -> "curve_to"
      [] letter = "c" -> "rel_curve_to"
      [] OTHER -> "close_path"

\* d is made of the commands M, m, L, l, C, c, Z, z only, each with exactly
\* the coordinates it requires
GrammarWellFormed(d) ==
    \A i \in 1..Len(GrammarCommands(d)) :
        LET c == GrammarCommands(d)[i] IN
        /\ Len(c.nums) = GrammarArity(c.letter)
        /\ \A j \in 1..Len(c.nums) : GrammarIsNumber(c.nums[j])

\* the drawing calls d stands for, in document order
GrammarCalls(d) ==
    [i \in 1..Len(GrammarCommands(d)) |->
        LET c == GrammarCommands(d)[i] IN
        [op |-> GrammarCall(c.letter),
         args |-> [j \in 1..Len(c.nums) |-> GrammarValue(c.nums[j])]]]

\* the drawing calls the handler of node id has issued, in order
Drawn(id) ==
    LET own == SelectSeq(context.calls,
                         LAMBDA e : e.node = id /\ e.role = "geometry")
    IN  [i \in 1..Len(own) |-> [op |-> own[i].op, args |-> own[i].args]]

\* node id is a path whose d attribute is well formed
WellFormedPath(id) ==
    /\ tree[id].tag = "path"
    /\ "d" \in DOMAIN tree[id].attrs
    /\ GrammarWellFormed(tree[id].attrs["d"])

C4_NoIterationRepeats ==
    [][(pc = "path" /\ pc' = "path") => loc' # loc]_vars

\* C4: the loop has run more iterations than any d of the documents has
\* characters, the sentinel included, each of them a close_path, and is
\* about to run the same iteration again
C4_Witness ==
    /\ pc = "path"
    /\ ~LogComplete
    /\ Branch(loc.letter) = "z"
    /\ loc.string # <<>>
    /\ ~Contains(ASCII_LETTERS, split(loc.string, <<" ">>, 1)[1])

\* the letter the next iteration of the loop runs: the first token of the
\* string when it is a letter (line 224), else the letter of the iteration
\* before
NextLetter ==
    LET parts == split(strip(loc.string, Whitespace), <<" ">>, 1) IN
    IF Contains(ASCII_LETTERS, parts[1]) THEN parts[1] ELSE loc.letter

\* the sentinel as the loop meets it when nothing else is left
Sentinel == <<"X", " ", "X">>

\* C5: whenever the path handler returns without raising, all of the
\* original d has been consumed by processed commands: the iteration that
\* stops the loop finds nothing but the appended sentinel left of the
\* string.
C5_ReturnsWithAllConsumed ==
    [][(pc = "path" /\ pc' = "paint")
          => strip(loc.string, Whitespace) = Sentinel]_vars

\* C5: the handler returns while commands of d are still in the string
C5_Witness ==
    /\ pc = "path"
    /\ NextLetter = <<"X">>
    /\ Contains(loc.string, <<"L">>)
    /\ Len(Drawn(Current)) = 1

\* the letters the loop of the path handler has a branch for
HandledLetters ==
    {"m", "M", "l", "L", "h", "v", "V", "c", "C", "s", "S", "z", "Z", "X"}

\* C6: when the letter an iteration of the path loop runs is an ASCII letter
\* other than m, M, l, L, h, v, V, c, C, s, S, z, Z and X, the iteration
\* raises NotImplementedError without issuing a call; the error leaves
\* every active call of draw, and nothing is processed after it.
C6_UnsupportedLetterRaises ==
    [][/\ (pc = "path" /\ NextLetter[1] \notin HandledLetters)
           => /\ pc' = "raised"
              /\ context'.exc = "NotImplementedError"
              /\ context'.calls = context.calls
              /\ stack' = <<>>
       /\ pc # "raised"]_vars

\* C6: an unsupported letter, after a command that was drawn, has raised
C6_Witness ==
    /\ pc = "raised"
    /\ context.exc = "NotImplementedError"
    /\ loc.letter = <<"A">>
    /\ loc.last_letter = <<"M">>
    /\ context.calls[Len(context.calls)].op = "move_to"
    /\ context.calls[Len(context.calls)].role = "geometry"

\* the last call issued
LastCall == context.calls[Len(context.calls)]

\* the tokens that follow the letter the next iteration runs
Operands ==
    LET s0    == strip(loc.string, Whitespace)
        parts == split(s0, <<" ">>, 1)
    IN  IF Contains(ASCII_LETTERS, parts[1])
        THEN split(parts[2], <<" ">>, Len(s0))
        ELSE split(s0, <<" ">>, Len(s0))

RECURSIVE LeadingNumbers(_)
\* how many of the tokens are numbers, up to the first that is not
LeadingNumbers(tokens) ==
    IF tokens = <<>> \/ tokens[1] = <<>> \/ ~GrammarIsNumber(tokens[1]) THEN 0
    ELSE 1 + LeadingNumbers(Tail(tokens))

\* C7: when the path loop runs the letter s on two points, the call it
\* issues is a relative curve whose first control point is
\* (x3 - x2, y3 - y2) of the curve drawn just before when the letter before
\* was c or s, and (0, 0) in every other case, also when no letter came
\* before; the other two points are those of the command.
C7_SmoothReflection ==
    [][(/\ pc = "path"
        /\ NextLetter = <<"s">>
        /\ LeadingNumbers(Operands) >= 4
        /\ LogComplete)
          => /\ Len(context'.calls) = Len(context.calls) + 1
             /\ context'.calls[Len(context'.calls)].op = "rel_curve_to"
             /\ context'.calls[Len(context'.calls)].args
                  = (IF loc.last_letter \in {<<"c">>, <<"s">>}
                     THEN <<Sub(LastCall.args[5], LastCall.args[3]),
                            Sub(LastCall.args[6], LastCall.args[4])>>
                     ELSE <<Num(0), Num(0)>>)
                    \o [j \in 1..4 |-> GrammarValue(Operands[j])]]_vars

\* C7: an s after c1 1 2 2 3 3 has been drawn with the reflected control
\* point (3 - 2, 3 - 2)
C7_AfterCurveReflected ==
    /\ pc = "path"
    /\ loc.letter = <<"s">>
    /\ Len(context.calls) >= 2
    /\ LastCall.op = "rel_curve_to"
    /\ LastCall.args = <<Num(1), Num(1), Num(4), Num(4), Num(5), Num(5)>>
    /\ context.calls[Len(context.calls) - 1].op = "rel_curve_to"
    /\ context.calls[Len(context.calls) - 1].role = "geometry"
    /\ context.calls[Len(context.calls) - 1].args
         = <<Num(1), Num(1), Num(2), Num(2), Num(3), Num(3)>>

\* C7: the first command of the path is an s, and the handler has raised
\* before drawing it
C7_FirstCommandRaises ==
    /\ pc = "raised"
    /\ context.exc = "TypeError"
    /\ loc.letter = <<"s">>
    /\ loc.last_letter = Absent
    /\ Drawn(2) = <<>>

\* the matrix in effect before the i-th call of the log
MatrixBefore(i) == IF i = 1 THEN Identity ELSE context.calls[i - 1].matrix

\* C8: after a matrix(a, b, c, d, e, f) operation of a transform attribute
\* has been applied, the current transformation matrix of the backend is
\* exactly (a, b, c, d, e, f), whatever it was before.
C8_MatrixReplaces ==
    \A i \in 1..Len(context.calls) :
        (context.calls[i].role = "matrix" /\ context.calls[i].ok) =>
            /\ Len(context.calls[i].args) = 6
            /\ context.calls[i].matrix = Matrix(context.calls[i].args)

\* C8: a matrix operation has been applied over a transformation that was
\* not the identity, where composing the two would have given another
\* matrix
C8_Witness ==
    \E i \in 1..Len(context.calls) :
        /\ context.calls[i].role = "matrix"
        /\ context.calls[i].ok
        /\ MatrixBefore(i) # Identity
        /\ context.calls[i].matrix = Matrix(context.calls[i].args)
        /\ Compose(MatrixBefore(i), Matrix(context.calls[i].args))
             # Matrix(context.calls[i].args)

\* the alpha a hex literal carries: its fourth component when it has one
\* (#rgba, #rrggbbaa), else 1
LiteralAlpha(literal) ==
    IF Len(literal) = 9 THEN Channel(SubSeq(literal, 8, 9))
    ELSE IF Len(literal) = 5 THEN Channel(<<literal[5], literal[5]>>)
    ELSE Num(1)

\* the attributes a paint operation takes its colour and its own opacity
\* from
ColourAttr(role) == IF role = "stroke" THEN "stroke" ELSE "fill"

OpacityAttr(role) ==
    IF role = "stroke" THEN "stroke-opacity" ELSE "fill-opacity"

\* the colour of a paint operation is given as a hex literal
HasLiteral(node, role) ==
    /\ ColourAttr(role) \in DOMAIN node.attrs
    /\ node.attrs[ColourAttr(role)] # <<>>
    /\ node.attrs[ColourAttr(role)][1] = "#"

\* element opacity x the channel's own opacity x the alpha of the literal
PaintAlpha(node, role) ==
    Mul(Mul(FloatAttr(node, "opacity"), FloatAttr(node, OpacityAttr(role))),
        LiteralAlpha(lower(node.attrs[ColourAttr(role)])))

\* C9: for every paint operation issued for a node whose colour is a hex
\* literal (the stroke, the generic fill and the glyph fill of the text
\* handler), the alpha set on the backend is the element opacity times the
\* channel's own opacity (stroke-opacity for the stroke, fill-opacity for
\* the fills, 1 when not given) times the alpha of the literal (1 when it
\* has none).  Each source set in a step is compared with the attributes the
\* node has when the step begins.
C9_AlphaIsProduct ==
    [][\A i \in (Len(context.calls) + 1)..Len(context'.calls) :
          LET e == context'.calls[i] IN
          (/\ e.op = "set_source_rgba"
           /\ e.role \in {"stroke", "fill", "glyph"}
           /\ HasLiteral(tree[e.node], e.role))
             => e.args[4] = PaintAlpha(tree[e.node], e.role)]_vars

\* C9: the glyphs of a text with fill-opacity 0.5 have been filled with
\* alpha 1
C9_GlyphFillIgnoresFillOpacity ==
    \E i \in 1..Len(context.calls) :
        /\ context.calls[i].op = "set_source_rgba"
        /\ context.calls[i].role = "glyph"
        /\ context.calls[i].args[4] = Num(1)
        /\ "fill-opacity" \in DOMAIN tree[context.calls[i].node].attrs
        /\ tree[context.calls[i].node].attrs["fill-opacity"]
             = <<"0", ".", "5">>
        /\ "opacity" \notin DOMAIN tree[context.calls[i].node].attrs

\* the number of coordinates each command letter takes
Coordinates(letter) ==
    CASE letter \in {<<"M">>, <<"m">>, <<"L">>, <<"l">>} -> 2
      [] letter \in {<<"C">>, <<"c">>} -> 6
      [] letter \in {<<"S">>, <<"s">>} -> 4
      [] letter \in {<<"h">>, <<"v">>, <<"V">>} -> 1
      [] OTHER -> 0

\* C10: when the command the path loop runs is followed by fewer coordinates
\* than it requires, the iteration raises before issuing a drawing call for
\* it; and no call is ever issued with a coordinate that is not a number
\* (the appended sentinel is never taken for a coordinate).
C10_IncompleteCommandRaises ==
    [][/\ (pc = "path" /\ LeadingNumbers(Operands) < Coordinates(NextLetter))
           => /\ pc' = "raised"
              /\ context'.calls = context.calls
       /\ \A i \in 1..Len(context'.calls) :
              \A j \in 1..Len(context'.calls[i].args) :
                  IsNum(context'.calls[i].args[j])]_vars

\* C10: a line with a single number has been drawn to (5, None), the
\* sentinel having been read as its second coordinate
C10_SentinelReadAsCoordinate ==
    /\ pc = "raised"
    /\ context.exc = "TypeError"
    /\ LastCall.op = "line_to"
    /\ LastCall.args = <<Num(5), None>>
    /\ ~LastCall.ok
    /\ loc.string = <<"X">>

(***************************************************************************)
(* C11: lengths with units                                                 *)
(***************************************************************************)

\* the numerals of the claim with their values
NumeralValues ==
    { << <<"0">>, Num(0) >>,
      << <<"1">>, Num(1) >>,
      << <<"-", "3", ".", "5">>, Rat(-7, 2) >>,
      << <<"1", "0", "0">>, Num(100) >> }

\* the resolvable units of the claim with their factors: 72/25.4, 72/2.54,
\* 72, 1, 12, 1
UnitFactors ==
    { << <<"m", "m">>, Rat(720, 254) >>,
      << <<"c", "m">>, Rat(7200, 254) >>,
      << <<"i", "n">>, Num(72) >>,
      << <<"p", "t">>, Num(1) >>,
      << <<"p", "c">>, Num(12) >>,
      << <<"p", "x">>, Num(1) >> }

\* the units that cannot be resolved
UnresolvedUnits == { <<"e", "m">>, <<"e", "x">>, <<"%">> }

\* the document is a root with one child placed at x = s
PlacedAt(s) ==
    /\ Len(tree) = 2
    /\ tree[2].tag = "g"
    /\ DOMAIN tree[2].attrs = {"x"}
    /\ tree[2].attrs.x = s

\* the x the child has been moved to is v: the move is in the log as soon
\* as draw has entered the child, and its first operand is v
MovedTo(v) ==
    /\ (pc = "paint" /\ Current = 2) =>
          \E i \in 1..Len(context.calls) :
             context.calls[i].node = 2 /\ context.calls[i].role = "position"
    /\ \A i \in 1..Len(context.calls) :
          (context.calls[i].node = 2 /\ context.calls[i].role = "position")
             => context.calls[i].args[1] = v
    /\ pc # "raised"

\* drawing the child fails on its x: nothing is moved, and once draw has
\* entered the child the render has ended in a TypeError
FailsOnLength ==
    /\ \A i \in 1..Len(context.calls) :
          context.calls[i].node = 2 => context.calls[i].role = "scope"
    /\ pc # "done"
    /\ (\E i \in 1..Len(context.calls) : context.calls[i].node = 2)
          => (pc = "raised" /\ context.exc = "TypeError")

\* C11: size() of a numeral v of {0, 1, -3.5, 100} followed by a unit of
\* {mm, cm, in, pt, pc, px} is v times the unit's factor {72/25.4, 72/2.54,
\* 72, 1, 12, 1}; size("") is 0 and size("42") is 42; a text whose unit is
\* em, ex or % ends in a failure, not in a value
C11_LengthsResolved ==
    /\ \A v \in NumeralValues, u \in UnitFactors :
          PlacedAt(v[1] \o u[1]) => MovedTo(Mul(v[2], u[2]))
    /\ PlacedAt(<<>>) => MovedTo(Num(0))
    /\ PlacedAt(<<"4", "2">>) => MovedTo(Num(42))
    /\ \A v \in NumeralValues, u \in UnresolvedUnits :
          PlacedAt(v[1] \o u) => FailsOnLength

\* a child placed at x = -3.5mm has been moved to -3.5 * 72 / 25.4
C11_Witness ==
    /\ PlacedAt(<<"-", "3", ".", "5", "m", "m">>)
    /\ pc = "paint"
    /\ \E i \in 1..Len(context.calls) :
          /\ context.calls[i].node = 2
          /\ context.calls[i].role = "position"
          /\ context.calls[i].args[1] = Rat(-1260, 127)

(***************************************************************************)
(* C12: the absolute smooth curve                                          *)
(***************************************************************************)

\* the mirror image of (x, y) through the point p: (2 * p.x - x, 2 * p.y - y)
Mirror(p, x, y) ==
    <<Sub(Add(p.x, p.x), x), Sub(Add(p.y, p.y), y)>>

\* C12: when the path loop runs the letter S on two points after an
\* iteration that ran C or S, the first control point of the curve_to it
\* issues is the mirror image of the second control point of the curve drawn
\* just before through the current point P of the backend,
\* (2 * Px - x2, 2 * Py - y2); after any other letter it is P itself.
C12_AbsoluteSmoothMirror ==
    [][(/\ pc = "path"
        /\ NextLetter = <<"S">>
        /\ LeadingNumbers(Operands) >= 4
        /\ loc.last_letter # Absent
        /\ LogComplete)
          => /\ Len(context'.calls) = Len(context.calls) + 1
             /\ context'.calls[Len(context'.calls)].op = "curve_to"
             /\ SubSeq(context'.calls[Len(context'.calls)].args, 1, 2)
                  = (IF loc.last_letter \in {<<"C">>, <<"S">>}
                     THEN Mirror(get_current_point(context),
                                 LastCall.args[3], LastCall.args[4])
                     ELSE <<get_current_point(context).x,
                            get_current_point(context).y>>)]_vars

\* C12: an S after C0 0 1 1 2 2, the current point being (2, 2), has been
\* drawn with the first control point (2 - 1, 2 - 1) = (1, 1), where the
\* mirror image of (1, 1) through (2, 2) is (3, 3)
C12_DifferenceNotMirror ==
    /\ pc = "path"
    /\ loc.letter = <<"S">>
    /\ loc.last_letter = <<"S">>
    /\ Len(context.calls) >= 2
    /\ LastCall.op = "curve_to"
    /\ LastCall.args = <<Num(1), Num(1), Num(4), Num(4), Num(5), Num(5)>>
    /\ context.calls[Len(context.calls) - 1].op = "curve_to"
    /\ context.calls[Len(context.calls) - 1].args
         = <<Num(0), Num(0), Num(1), Num(1), Num(2), Num(2)>>
    /\ context.calls[Len(context.calls) - 1].matrix = Identity
    /\ Mirror([x |-> Num(2), y |-> Num(2)], Num(1), Num(1)) = <<Num(3), Num(3)>>

(***************************************************************************)
(* C13: the fill rule                                                      *)
(***************************************************************************)

\* C13: a node whose fill-rule attribute is absent or is not evenodd is
\* filled with the nonzero (winding) fill rule in effect on the backend,
\* whatever the fill-rule of its ancestors and of the nodes drawn before it.
C13_NonzeroUnlessEvenOdd ==
    [][(/\ pc = "paint"
        /\ pc' = "children"
        /\ Get(tree[Current], "fill-rule") # <<"e", "v", "e", "n", "o", "d", "d">>)
          => context'.fill_rule = "WINDING"]_vars

\* C13: a node with fill-rule="nonzero", child of a node with
\* fill-rule="evenodd", has just been filled with the even-odd rule in
\* effect
C13_EvenOddInherited ==
    /\ pc = "children"
    /\ Len(stack) = 3
    /\ stack[3].child = 0
    /\ Get(tree[stack[3].node], "fill-rule") = <<"n", "o", "n", "z", "e", "r", "o">>
    /\ Get(tree[stack[2].node], "fill-rule") = <<"e", "v", "e", "n", "o", "d", "d">>
    /\ LastCall.op = "fill"
    /\ LastCall.node = stack[3].node
    /\ context.fill_rule = "EVEN_ODD"

(***************************************************************************)
(* C14: the dispatch on the tag                                            *)
(***************************************************************************)

\* the tags the claim gives a geometry handler
GeometryTags == {"circle", "path", "line", "tspan", "text", "use"}

\* the step of draw that enters the current node does nothing beyond lines
\* 145-168: no handler runs, nothing is raised, and the paint of the node
\* comes next
NoHandlerRuns ==
    /\ context' = Enter(context, tree[Current], Current)
    /\ pc' = "paint"
    /\ stack' = stack
    /\ tree' = tree
    /\ cursor_position' = cursor_position

\* C14: a handler is invoked for a node if and only if its tag is one of
\* circle, path, line, tspan, text, use; a node of any other tag invokes no
\* handler and raises no error, and its paint and its children are
\* processed.
C14_HandlerIffGeometryTag ==
    [][(/\ pc = "draw"
        /\ Enter(context, tree[Current], Current).exc = "")
          => (tree[Current].tag \in GeometryTags <=> ~NoHandlerRuns)]_vars

\* C14: a node whose tag is the name of the method read has been entered:
\* after its move_to, read(node) was called and raised TypeError
C14_OtherAttributeCalled ==
    /\ pc = "raised"
    /\ context.exc = "TypeError"
    /\ LastCall.role = "position"
    /\ tree[LastCall.node].tag = "read"
    /\ tree[LastCall.node].tag \notin GeometryTags

(***************************************************************************)
(* C15: the operations of a transform attribute.  The attribute is read    *)
(* here by the grammar of transform lists: a name, "(", numbers separated  *)
(* by whitespace, commas or the sign of the next number, ")".              *)
(***************************************************************************)

\* the value of the decimal numeral t: sign, digits, at most one point
ListDecimal(t) ==
    LET sign   == IF t[1] = "-" THEN -1 ELSE 1
        digits == IF t[1] \in {"-", "+"} THEN Tail(t) ELSE t
        parts  == split(digits, <<".">>, 1)
        fp     == IF Len(parts) = 2 THEN parts[2] ELSE <<>>
    IN  Rat(sign * DigitsValue(parts[1] \o fp), Pow10(Len(fp)))

\* the value of the number t: a decimal numeral and an optional exponent
ListNumber(t) ==
    LET parts == split(t, <<"e">>, 1)
        e     == IF Len(parts) = 2 THEN ListDecimal(parts[2]).n ELSE 0
    IN  IF e >= 0 THEN Mul(ListDecimal(parts[1]), Num(Pow10(e)))
        ELSE Mul(ListDecimal(parts[1]), Rat(1, Pow10(-e)))

\* the numbers out followed by the number cur, if there is one
ListFlush(out, cur) ==
    IF cur = <<>> THEN out ELSE Append(out, ListNumber(cur))

RECURSIVE ListScan(_, _, _)
\* the numbers of the argument list s, cur being the number under way
ListScan(s, cur, out) ==
    IF s = <<>> THEN ListFlush(out, cur)
    ELSE IF s[1] \in {" ", ","}
    THEN ListScan(Tail(s), <<>>, ListFlush(out, cur))
    ELSE IF s[1] \in {"-", "+"} /\ cur # <<>> /\ cur[Len(cur)] # "e"
    THEN ListScan(Tail(s), <<s[1]>>, ListFlush(out, cur))
    ELSE ListScan(Tail(s), Append(cur, s[1]), out)

RECURSIVE ListOperations(_)
\* the operations of the transform list s, in order: name and values
ListOperations(s) ==
    LET close == FindFrom(s, <<")">>, 1)
        open  == FindFrom(s, <<"(">>, 1)
    IN  IF close = 0 THEN <<>>
        ELSE <<[name   |-> strip(SubSeq(s, 1, open - 1), {" ", ","}),
                values |-> ListScan(SubSeq(s, open + 1, close - 1),
                                    <<>>, <<>>)]>>
             \o ListOperations(SubSeq(s, close + 1, Len(s)))

\* the values an operation is applied with: a scale or a translate given
\* one value v is applied as (v, v)
ListApplied(operation) ==
    IF operation.name # TypeName("matrix") /\ Len(operation.values) = 1
    THEN operation.values \o operation.values
    ELSE operation.values

\* the transform calls issued for node id, in order
TransformCalls(id) ==
    SelectSeq(context.calls,
              LAMBDA e : e.node = id
                         /\ e.role \in {"scale", "translate", "matrix"})

\* draw has moved to the position of node id: its transform comes in the
\* same step
Positioned(id) ==
    \E i \in 1..Len(context.calls) :
       /\ context.calls[i].node = id
       /\ context.calls[i].role = "position"
       /\ context.calls[i].ok

\* C15: for a transform attribute of k operations scale(...),
\* translate(...), matrix(...), the backend receives exactly k transform
\* calls, the i-th being the i-th operation of the string with its values
\* in the order of the string, a scale or translate of one value v being
\* applied as (v, v).
C15_TransformCallsInOrder ==
    \A id \in 1..Len(tree) :
       (/\ ~Falsy(Get(tree[id], "transform"))
        /\ Positioned(id)
        /\ LogComplete)
          => /\ Len(TransformCalls(id))
                  = Len(ListOperations(Get(tree[id], "transform")))
             /\ \A i \in 1..Len(TransformCalls(id)) :
                   /\ TypeName(TransformCalls(id)[i].role)
                        = ListOperations(Get(tree[id], "transform"))[i].name
                   /\ TransformCalls(id)[i].args
                        = ListApplied(
                              ListOperations(Get(tree[id], "transform"))[i])

\* C15: for transform="scale(1e-3)" the backend has received
\* scale(None, -3), which it rejects, and not scale(0.001, 0.001)
C15_ExponentSplit ==
    /\ Len(tree) = 2
    /\ Get(tree[2], "transform")
         = <<"s", "c", "a", "l", "e", "(", "1", "e", "-", "3", ")">>
    /\ pc = "raised"
    /\ context.exc = "TypeError"
    /\ LastCall.op = "scale"
    /\ LastCall.args = <<None, Num(-3)>>
    /\ ~LastCall.ok
    /\ ListApplied(ListOperations(Get(tree[2], "transform"))[1])
         = <<Rat(1, 1000), Rat(1, 1000)>>

(***************************************************************************)
(* C16: the cursor threaded from one text to the next                      *)
(***************************************************************************)

\* the coordinate name of a tspan starts from: the explicit one if the node
\* has it, else the one of the cursor
StartFrom(node, name, c) ==
    IF name \in DOMAIN node.attrs THEN size(node.attrs[name]) ELSE c

\* C16: when draw enters a tspan after a text or a tspan has been drawn,
\* its text is traced from (X + dx, Y + dy), X being the x of the node if
\* it has one and else the x of the cursor the last text left, Y likewise;
\* afterwards the cursor is the current point of the backend at the end of
\* the traced text.
C16_TspanFollowsCursor ==
    [][(/\ pc = "draw"
        /\ tree[Current].tag = "tspan"
        /\ cursor_position # NoPoint
        /\ Enter(context, tree[Current], Current).exc = ""
        /\ Len(context.calls) + 12 < MaxCalls)
          => /\ pc' = "paint"
             /\ context'.calls[Len(context'.calls)].op = "text_path"
             /\ context'.calls[Len(context'.calls)].node = Current
             /\ context'.calls[Len(context'.calls) - 1].op = "move_to"
             /\ context'.calls[Len(context'.calls) - 1].args
                  = <<Add(StartFrom(tree[Current], "x", cursor_position.x),
                          size(Get(tree[Current], "dx"))),
                      Add(StartFrom(tree[Current], "y", cursor_position.y),
                          size(Get(tree[Current], "dy")))>>
             /\ cursor_position' = get_current_point(context')]_vars

\* C16: a tspan without x drawn after a text that ended at x = 0.00001 has
\* been given x = "1e-05", and its text has been started at (None, 0)
C16_CursorLostInText ==
    /\ pc = "raised"
    /\ context.exc = "TypeError"
    /\ cursor_position = [x |-> Rat(1, 100000), y |-> Num(0)]
    /\ LastCall.op = "move_to"
    /\ LastCall.role = "glyph"
    /\ LastCall.args = <<None, Num(0)>>
    /\ tree[LastCall.node].tag = "tspan"
    /\ Get(tree[LastCall.node], "x") = <<"1", "e", "-", "0", "5">>

(***************************************************************************)
(* C17: the order of the calls of a node                                   *)
(***************************************************************************)

\* the place of a call in the render step of its node: save, move to
\* (x, y), transform operations, the calls of the tag handler, line width,
\* stroke colour, stroke-preserve, fill rule, fill colour, fill, restore
Rank(e) ==
    CASE e.role = "scope" /\ e.op = "save" -> 0
      [] e.role = "position" -> 1
      [] e.role \in {"scale", "translate", "matrix"} -> 2
      [] e.role = "stroke" /\ e.op = "set_line_width" -> 4
      [] e.role = "stroke" /\ e.op = "set_source_rgba" -> 5
      [] e.role = "stroke" /\ e.op = "stroke_preserve" -> 6
      [] e.role = "fill" /\ e.op = "set_fill_rule" -> 7
      [] e.role = "fill" /\ e.op = "set_source_rgba" -> 8
      [] e.role = "fill" /\ e.op = "fill" -> 9
      [] e.role = "scope" /\ e.op = "restore" -> 10
      [] OTHER -> 3

RECURSIVE Descendants(_)
\* the nodes below node a
Descendants(a) ==
    {tree[a].children[k] : k \in 1..Len(tree[a].children)}
    \cup UNION {Descendants(tree[a].children[k]) :
                   k \in 1..Len(tree[a].children)}

\* c and d are children of the same node, c before d in document order
Precedes(c, d) ==
    \E p \in 1..Len(tree) :
       \E k, l \in 1..Len(tree[p].children) :
          k < l /\ tree[p].children[k] = c /\ tree[p].children[l] = d

\* the call e comes before the call f in the log, as the order of a render
\* step has it: within one node by rank, transform operations and handler
\* calls being the only ones there can be several of; a node's calls other
\* than its restore before those of its descendants and its restore after
\* them; a child's calls before those of the children after it
InOrder(e, f) ==
    /\ e.node = f.node =>
          \/ Rank(e) < Rank(f)
          \/ (Rank(e) = Rank(f) /\ Rank(e) \in {2, 3})
    /\ e.node \in Descendants(f.node) => Rank(f) = 10
    /\ f.node \in Descendants(e.node) => Rank(e) < 10
    /\ ~Precedes(f.node, e.node)

\* the calls of a node that is painted are all there: the node has been
\* moved to, and its fill comes after line width, stroke colour,
\* stroke-preserve and fill colour
PaintComplete(j) ==
    Rank(context.calls[j]) = 9 =>
       \A r \in {0, 1, 4, 5, 6, 8} :
          \E i \in 1..(j - 1) :
             /\ context.calls[i].node = context.calls[j].node
             /\ Rank(context.calls[i]) = r

\* C17, as amended: the calls of a node occur in the order move to (x, y),
\* transform operations, the calls of the tag handler, line width, stroke
\* colour, stroke-preserve, fill rule, fill colour, fill, the calls of each
\* child in document order and, for a node other than the root, the node's
\* restore; every call made for a descendant comes after the fill of its
\* ancestor and before the ancestor's restore, if the ancestor has one.
C17_StepOrder ==
    /\ \A j \in 1..Len(context.calls) :
          /\ PaintComplete(j)
          /\ \A i \in 1..(j - 1) : InOrder(context.calls[i], context.calls[j])
          /\ Rank(context.calls[j]) = 10 => ~tree[context.calls[j].node].root
    /\ (pc = "done" /\ LogComplete) =>
          \A id \in 1..Len(tree) :
             ~tree[id].root =>
                \E j \in 1..Len(context.calls) :
                   context.calls[j].node = id /\ Rank(context.calls[j]) = 10

\* C17: a render has completed in which a node with a transform and a
\* handler was drawn with a child of its own
C17_Witness ==
    /\ pc = "done"
    /\ LogComplete
    /\ Len(tree) = 3
    /\ tree[2].children = <<3>>
    /\ \E i, j, k \in 1..Len(context.calls) :
          /\ i < j /\ j < k
          /\ context.calls[i].node = 2 /\ Rank(context.calls[i]) = 9
          /\ context.calls[j].node = 3 /\ Rank(context.calls[j]) = 3
          /\ context.calls[k].node = 2 /\ Rank(context.calls[k]) = 10
    /\ \E i \in 1..Len(context.calls) :
          context.calls[i].node = 1 /\ Rank(context.calls[i]) = 2

\* C17 as stated: the order of C17_StepOrder, and when the render has
\* completed every node has been restored after its children, so that the
\* calls of every descendant lie between the fill and the restore of each
\* of its ancestors.
C17_StepOrderAsStated ==
    /\ \A j \in 1..Len(context.calls) :
          \A i \in 1..(j - 1) : InOrder(context.calls[i], context.calls[j])
    /\ (pc = "done" /\ LogComplete) =>
          \A id \in 1..Len(tree) :
             \E j \in 1..Len(context.calls) :
                context.calls[j].node = id /\ Rank(context.calls[j]) = 10

(***************************************************************************)
(* C18: the path of one node does not reach the paint of another           *)
(***************************************************************************)

\* C18: when draw strokes and fills a node, the segments of the current
\* path of the backend (lines, curves, arcs, glyphs) have all been added for
\* that node; and the path is empty whenever draw enters a node or goes on
\* to the children of one, so that no child, sibling or referenced document
\* adds geometry to what another node has left.
C18_NoGeometryLeak ==
    /\ pc \in {"paint", "path"} => context.path \subseteq {Current}
    /\ pc \in {"draw", "children", "done"} => context.path = {}

\* C18: the circle of a referenced document is about to be painted with
\* its own arc alone in the path, after the arc of a circle of the
\* referring document was drawn and filled
C18_Witness ==
    /\ pc = "paint"
    /\ Len(tree) = 5
    /\ tree[3].tag = "use"
    /\ Current = 5
    /\ context.path = {5}
    /\ \E i, j \in 1..Len(context.calls) :
          /\ i < j
          /\ context.calls[i].node = 2 /\ context.calls[i].op = "arc"
          /\ context.calls[j].node = 2 /\ context.calls[j].op = "fill"

=============================================================================
